---- MODULE Spec2Model ----
(***************************************************************************)
(* A model of medoo.js (the Medoo query builder for Node.js).              *)
(*                                                                         *)
(* SQL text is modelled as text: TLA+ strings, built by concatenation      *)
(* exactly where the source builds them with template literals, and        *)
(* matched character by character where the source matches them with a     *)
(* regular expression.  JavaScript values are records [t, s, kids]:        *)
(*   t    the kind of value: "number", "string", "boolean", "null",        *)
(*        "undefined", "array", "object" (a plain object) or "raw" (Raw)   *)
(*   s    the text of a scalar (what String(value) gives), or a Raw's SQL  *)
(*   kids the entries of an array, object or Raw map, in Object.entries    *)
(*        order, each [k |-> key, v |-> value]                             *)
(***************************************************************************)
EXTENDS Integers, Sequences, FiniteSets, TLC

VARIABLES
    prefix,     \* this.prefix: the configured table prefix
    logging,    \* this.logging: whether exec keeps every statement in logs
    guid,       \* this.guid: the parameter-name counter
    debugMode,  \* this.debugMode
    logs,       \* this.logs: the statements kept by exec, as call ids
    lastError,  \* this.lastError: 0 for null, else the call whose statement failed
    connection, \* this.connection: 0 for null, else the attempt that opened it
    opens,      \* the initConnection attempts, by attempt id
    conn,       \* what the driver has been asked to do, in order
    calls,      \* the calls made on the instance, by call id
    issued,     \* every parameter name bound by a compilation, in order
    trace,      \* the calls of debug() and the entries into exec, in order
    op,         \* the operation last applied (specifications of one function)
    arg,        \* its input
    ret         \* its result

instance == <<logging, debugMode, logs, lastError, connection, opens, conn, calls,
              issued, trace>>
vars == <<prefix, guid, instance, op, arg, ret>>

----------------------------------------------------------------------------
(* Text helpers *)

\* const x = value; ...x...: the value is computed once and named in F
With(value, F(_)) == F(value)

\* s.substring(m - 1, n): the characters s[m..n], 1-based, clipped to the text
Sub(s, m, n) ==
    LET lo == IF m < 1 THEN 1 ELSE m
        hi == IF n > Len(s) THEN Len(s) ELSE n
    IN IF lo > hi THEN "" ELSE SubSeq(s, lo, hi)

\* the character s[i], "" outside the text
At(s, i) == IF i \in 1..Len(s) THEN SubSeq(s, i, i) ELSE ""

Lower == "abcdefghijklmnopqrstuvwxyz"
Upper == "ABCDEFGHIJKLMNOPQRSTUVWXYZ"
Digit == "0123456789"

CharsOf(s) == {SubSeq(s, i, i) : i \in 1..Len(s)}

\* the character class [a-zA-Z0-9_]
WordChar == CharsOf("abcdefghijklmnopqrstuvwxyzABCDEFGHIJKLMNOPQRSTUVWXYZ0123456789_")

\* the length of the longest run of characters of class cls starting at s[i]
\* (what a greedy cls* consumes there)
RunLen(s, i, cls) ==
    Cardinality({j \in i..Len(s) : \A m \in i..j : At(s, m) \in cls})

\* the least of a set of positions, 0 when there is none
First(hits) == IF hits = {} THEN 0 ELSE CHOOSE i \in hits : \A j \in hits : i <= j

\* String.prototype.indexOf(pat, from), 1-based; 0 when pat does not occur
IndexFrom(s, pat, from) ==
    First({i \in from..(Len(s) - Len(pat) + 1) : SubSeq(s, i, i + Len(pat) - 1) = pat})

IndexOf(s, pat) == IndexFrom(s, pat, 1)

Includes(s, pat) == IndexOf(s, pat) > 0

\* s with the n characters from s[i] on replaced by rep; s when i = 0
ReplaceAt(s, i, n, rep) ==
    IF i = 0 THEN s ELSE Sub(s, 1, i - 1) \o rep \o Sub(s, i + n, Len(s))

\* String.prototype.replace(pat, rep) with a string pattern: the first
\* occurrence only
ReplaceFirst(s, pat, rep) == ReplaceAt(s, IndexOf(s, pat), Len(pat), rep)

\* Array.prototype.join
RECURSIVE Join(_, _)
Join(parts, sep) ==
    IF Len(parts) = 0 THEN ""
    ELSE IF Len(parts) = 1 THEN parts[1]
    ELSE parts[1] \o sep \o Join(Tail(parts), sep)

\* all texts over the characters of alphabet, of length at most n
RECURSIVE TextsUpTo(_, _)
TextsUpTo(alphabet, n) ==
    IF n = 0 THEN {""}
    ELSE {t \o c : t \in TextsUpTo(alphabet, n - 1), c \in alphabet \cup {""}}

----------------------------------------------------------------------------
(* Results of an operation that may throw *)

Ok(s) == [ok |-> TRUE, s |-> s]
Thrown(msg) == [ok |-> FALSE, s |-> msg]

\* pre + q for a result q: the error of q when it threw
Prefixed(pre, q) == IF q.ok THEN Ok(pre \o q.s) ELSE q

\* a + b for two results: the first error thrown
ConcatOk(a, b) == IF ~a.ok THEN a ELSE Prefixed(a.s, b)

----------------------------------------------------------------------------
(* Identifier quoting: tableQuote, columnQuote *)

\* /^[a-zA-Z0-9_]+$/i
MatchesTableName(s) == Len(s) >= 1 /\ RunLen(s, 1, WordChar) = Len(s)

\* /^[a-zA-Z0-9_]+(\.[a-zA-Z0-9_]+)?$/i
MatchesColumnName(s) ==
    \E n \in {RunLen(s, 1, WordChar)} :
        /\ n >= 1
        /\ \/ n = Len(s)
           \/ At(s, n + 1) = "." /\ MatchesTableName(Sub(s, n + 2, Len(s)))

tableQuote(table) ==
    IF ~MatchesTableName(table) THEN Thrown("Incorrect table name")
    ELSE Ok("\"" \o prefix \o table \o "\"")

columnQuote_PrefixAlways(string) ==
    IF ~MatchesColumnName(string) THEN Thrown("Incorrect column name")
    ELSE Ok("\"" \o prefix \o ReplaceFirst(string, ".", "\".\"") \o "\"")

columnQuote(string) ==
    IF ~MatchesColumnName(string) THEN Thrown("Incorrect column name")
    ELSE IF Includes(string, ".")
         THEN Ok("\"" \o prefix \o ReplaceFirst(string, ".", "\".\"") \o "\"")
         ELSE Ok("\"" \o string \o "\"")

----------------------------------------------------------------------------
(* JavaScript values *)

Num(s) == [t |-> "number", s |-> s, kids |-> <<>>]
Str(s) == [t |-> "string", s |-> s, kids |-> <<>>]
Bool(b) == [t |-> "boolean", s |-> IF b THEN "true" ELSE "false", kids |-> <<>>]
Null == [t |-> "null", s |-> "", kids |-> <<>>]
Undefined == [t |-> "undefined", s |-> "", kids |-> <<>>]
E(k, v) == [k |-> k, v |-> v]

\* the decimal text of a natural number (String(n))
RECURSIVE DecStr(_)
DecStr(n) == IF n < 10 THEN At(Digit, n + 1)
             ELSE DecStr(n \div 10) \o At(Digit, (n % 10) + 1)

\* an array: Object.entries gives its elements under the keys "0", "1", ...
Arr(items) ==
    [t |-> "array", s |-> "",
     kids |-> [i \in 1..Len(items) |-> E(DecStr(i - 1), items[i])]]
Obj(entries) == [t |-> "object", s |-> "", kids |-> entries]
\* new Raw(value, map)
RawOf(value, map) == [t |-> "raw", s |-> value, kids |-> map]

\* typeof value
TypeOf(v) == IF v.t \in {"null", "array", "object", "raw"} THEN "object" ELSE v.t
IsArray(v) == v.t = "array"
isRaw(v) == v.t = "raw"

\* value[i] of an array, 0-based: undefined past its end
Elem(v, i) == IF i + 1 <= Len(v.kids) THEN v.kids[i + 1].v ELSE Undefined

RECURSIVE ToStr(_), ArrayJoin(_, _)

\* Array.prototype.join: null and undefined give the empty text
ArrayJoin(v, sep) ==
    Join([i \in 1..Len(v.kids) |->
             IF v.kids[i].v.t \in {"null", "undefined"} THEN "" ELSE ToStr(v.kids[i].v)],
         sep)

\* String(value)
ToStr(v) ==
    CASE v.t \in {"number", "string", "boolean"} -> v.s
      [] v.t = "null" -> "null"
      [] v.t = "undefined" -> "undefined"
      [] v.t = "array" -> ArrayJoin(v, ",")
      [] OTHER -> "[object Object]"

\* Object.entries(value): a Raw is an object with the fields value and map
Entries(v) ==
    IF v.t = "raw" THEN <<E("value", Str(v.s)), E("map", Obj(v.kids))>>
    ELSE v.kids

\* /^\d+$/
IsIntKey(k) == Len(k) >= 1 /\ RunLen(k, 1, CharsOf(Digit)) = Len(k)

\* map[key] = value on an object kept as its entries in insertion order
HasKey(map, key) == \E i \in 1..Len(map) : map[i].k = key

MapSet(map, key, value) ==
    IF HasKey(map, key)
    THEN [i \in 1..Len(map) |-> IF map[i].k = key THEN E(key, value) ELSE map[i]]
    ELSE Append(map, E(key, value))

\* Object.assign(map, other)
RECURSIVE Assign(_, _)
Assign(map, other) ==
    IF Len(other) = 0 THEN map
    ELSE Assign(MapSet(map, other[1].k, other[1].v), Tail(other))

----------------------------------------------------------------------------
(* Parameter names and type mapping: mapKey, typeMap *)

\* `:medoo_${this.guid++}_param` for the counter value g
mapKey_NoCounter(g) == ":medoo_" \o "_param"

mapKey(g) == ":medoo_" \o DecStr(g) \o "_param"

typeMap_Identity(value, type) == value

typeMap(value, type) ==
    IF type = "boolean" THEN Str(IF value.s = "true" THEN "1" ELSE "0")
    ELSE value

----------------------------------------------------------------------------
(* Raw fragments: buildRaw *)

\* \s and the line terminators that . does not match
SpaceChar == {" ", "\t", "\n", "\r", "\f"}
LineEnd == {"\n", "\r"}

\* the upper-case form of a character, given its place in the lower-case letters
UpperChar(c, i) == IF i > 0 THEN At(Upper, i) ELSE c

\* the upper-case form of a text (matching under the i flag)
RECURSIVE UpperText(_)
UpperText(s) ==
    IF Len(s) = 0 THEN ""
    ELSE UpperChar(At(s, 1), IndexOf(Lower, At(s, 1))) \o UpperText(Sub(s, 2, Len(s)))

\* the quote marks of the pattern's first group: backtick and single quote
RawQuoteMark == CharsOf("`'")

NoMatch == [len |-> 0, kw |-> "", name |-> ""]

\* (FROM|TABLE|INTO|UPDATE|JOIN) at s[j]: the keyword as written, or ""
RawKeywords == {"FROM", "TABLE", "INTO", "UPDATE", "JOIN"}
KeywordText(s, j, hits) ==
    IF hits = {} THEN "" ELSE Sub(s, j, j + Len(CHOOSE k \in hits : TRUE) - 1)
KeywordAt(s, j) ==
    KeywordText(s, j, {k \in RawKeywords : UpperText(Sub(s, j, j + Len(k) - 1)) = k})

\* ([a-zA-Z0-9_]+)(\.[a-zA-Z0-9_]+)?\> at s[j], its first run being n1 long:
\* the length of the name, 0 when there is no match
NameLen(s, j, n1) ==
    IF n1 = 0 THEN 0
    ELSE IF At(s, j + n1) = ">" THEN n1
    ELSE IF /\ At(s, j + n1) = "."
            /\ RunLen(s, j + n1 + 1, WordChar) >= 1
            /\ At(s, j + n1 + 1 + RunLen(s, j + n1 + 1, WordChar)) = ">"
    THEN n1 + 1 + RunLen(s, j + n1 + 1, WordChar)
    ELSE 0

\* \<(([a-zA-Z0-9_]+)(\.[a-zA-Z0-9_]+)?)\> at s[lt], after keyword kw at s[j]
PlaceholderMatch(s, j, kw, lt, n) ==
    IF At(s, lt) # "<" \/ n = 0 THEN NoMatch
    ELSE [len |-> lt + n + 2 - j, kw |-> kw, name |-> Sub(s, lt + 1, lt + n)]

PlaceholderAt(s, j, kw, lt) ==
    PlaceholderMatch(s, j, kw, lt, NameLen(s, lt + 1, RunLen(s, lt + 1, WordChar)))

\* ((FROM|TABLE|INTO|UPDATE|JOIN)\s*)?\<...\> at s[j]
KeywordTail(s, j, kw) ==
    PlaceholderAt(s, j, kw,
                  IF kw = "" THEN j ELSE j + Len(kw) + RunLen(s, j + Len(kw), SpaceChar))

TailAt(s, j) == KeywordTail(s, j, KeywordAt(s, j))

\* the first k >= j with the tail at s[k], reached over characters that .
\* matches (the lazy .*? of group 1); 0 when there is none
LazyTail(s, j) ==
    First({k \in j..Len(s) : /\ TailAt(s, k).len > 0
                             /\ \A m \in j..(k - 1) : At(s, m) \notin LineEnd})

\* the first k >= m with s[k] = q, reached over characters that . matches
\* (the closing (.*?\2) of a quoted match); 0 when there is none
LazyQuote(s, m, q) ==
    First({k \in m..Len(s) : /\ At(s, k) = q
                             /\ \A x \in m..(k - 1) : At(s, x) \notin LineEnd})

\* a match that began with a quote mark and ends at the closing mark m, or at
\* e - 1 when there is none
QuotedMatch(e, m) ==
    [last |-> IF m > 0 THEN m ELSE e - 1, quoted |-> TRUE, kw |-> "", name |-> ""]

\* a match t of the tail at s[i] with no quote mark before it
PlainMatch(i, t) ==
    [last |-> IF t.len > 0 THEN i + t.len - 1 ELSE 0, quoted |-> FALSE,
     kw |-> t.kw, name |-> t.name]

\* the match of the whole pattern starting at s[i]: [last, quoted, kw, name],
\* last = 0 when there is none; j is where the tail t follows a quote mark,
\* 0 when s[i] is no quote mark or no tail follows it
RawMatch(s, i, j, t) ==
    IF j > 0 THEN QuotedMatch(j + t.len, LazyQuote(s, j + t.len, At(s, i)))
    ELSE PlainMatch(i, t)

RawMatchFrom(s, i, j) == RawMatch(s, i, j, TailAt(s, IF j > 0 THEN j ELSE i))

RawMatchAt(s, i) ==
    RawMatchFrom(s, i, IF At(s, i) \in RawQuoteMark THEN LazyTail(s, i + 1) ELSE 0)

\* the replacement callback: p1 is undefined whenever the match is replaced,
\* and undefined + text is the text "undefined..."
RawReplacement(s, i, m) ==
    IF m.quoted THEN Ok(Sub(s, i, m.last))
    ELSE IF m.kw # "" THEN Prefixed("undefined" \o m.kw \o " ", tableQuote(m.name))
    ELSE Prefixed("undefined", columnQuote(m.name))

RECURSIVE RawReplaceFrom(_, _)

\* the text from s[i] on with the match m at s[k] and all later ones replaced
RawReplaceMatch(s, i, k, m) ==
    Prefixed(Sub(s, i, k - 1),
             ConcatOk(RawReplacement(s, k, m), RawReplaceFrom(s, m.last + 1)))

\* the same, k being where the next match begins, 0 when there is none
RawReplaceAt(s, i, k) ==
    IF k = 0 THEN Ok(Sub(s, i, Len(s))) ELSE RawReplaceMatch(s, i, k, RawMatchAt(s, k))

\* query.replace(/.../gi, callback) from s[i] on
RawReplaceFrom(s, i) ==
    RawReplaceAt(s, i, First({k \in i..Len(s) : RawMatchAt(s, k).last > 0}))

\* the map after Object.assign(map, raw.map), which runs when the replacement
\* did not throw and raw.map has keys
RawMap(raw, map, q) == IF q.ok /\ Len(raw.kids) > 0 THEN Assign(map, raw.kids) ELSE map

\* buildRaw(raw, map): [ok, s, map]
buildRaw(raw, map) ==
    With(RawReplaceFrom(raw.s, 1), LAMBDA q : [ok |-> q.ok, s |-> q.s, map |-> RawMap(raw, map, q)])

----------------------------------------------------------------------------
(* Generated SQL: pieces of text, each with the expression that produced it *)
(*   "sql"     text written in the source                                   *)
(*   "quoted"  the result of tableQuote or columnQuote                      *)
(*   "param"   a generated parameter name                                   *)
(*   "raw"     the result of buildRaw                                       *)
(*   "escaped" the result of connection.escape                              *)
(*   "listed"  a number of a list given to arrayQuote, pushed as it is      *)
(*   "number"  a value that typeof has shown to be a number                 *)
(*   "value"   a caller's value interpolated as it is                       *)
(*   "name"    a caller's key or name interpolated as it is                 *)

Seg(kind, s) == <<[k |-> kind, s |-> s]>>
Sql(s) == Seg("sql", s)

\* the statement text of a sequence of pieces
RECURSIVE Text(_)
Text(segs) == IF Len(segs) = 0 THEN "" ELSE segs[1].s \o Text(Tail(segs))

\* stack.join(sep) over pieces
RECURSIVE JoinSegs(_, _)
JoinSegs(parts, sep) ==
    IF Len(parts) = 0 THEN <<>>
    ELSE IF Len(parts) = 1 THEN parts[1]
    ELSE parts[1] \o Sql(sep) \o JoinSegs(Tail(parts), sep)

\* The state a compilation threads through its steps:
\*   ok    FALSE once an error has been thrown
\*   map   the parameter map, entries in insertion order
\*   guid  this.guid
\*   names the generated parameter names bound so far, in order
Ctx(g) == [ok |-> TRUE, map |-> <<>>, guid |-> g, names |-> <<>>]
Fail(c) == [c EXCEPT !.ok = FALSE]
\* map[name] = value for a generated name
Bind(c, name, value) ==
    [c EXCEPT !.map = MapSet(c.map, name, value), !.names = Append(c.names, name)]
\* the result of one step: the state after it and the pieces it pushed
Step(c, push) == [c |-> c, push |-> push]
Built(c, segs) == [c |-> c, segs |-> segs]

\* a quoted identifier as pieces: [ok, segs]
Quoted(q) == [ok |-> q.ok, segs |-> IF q.ok THEN Seg("quoted", q.s) ELSE <<>>]
Pieces(segs) == [ok |-> TRUE, segs |-> segs]
NoPieces == [ok |-> FALSE, segs |-> <<>>]

\* `${before}${this.buildRaw(value, map)}` pushed, r being the result of buildRaw
RawPush(c, before, r) ==
    IF r.ok THEN Step([c EXCEPT !.map = r.map], <<before \o Seg("raw", r.s)>>)
    ELSE Step(Fail(c), <<>>)

\* buildRaw inside a compilation: the pieces, or a thrown error
RawStep(value, c, before) == RawPush(c, before, buildRaw(value, c.map))

\* the same as the text of a clause
RawBuilt(c, before, r) ==
    IF r.ok THEN Built([c EXCEPT !.map = r.map], before \o Seg("raw", r.s))
    ELSE Built(Fail(c), <<>>)
RawClause(value, c, before) == RawBuilt(c, before, buildRaw(value, c.map))

----------------------------------------------------------------------------
(* The condition compiler: dataImplode, innerConjunct *)

\* /^(AND|OR)/
LogicalLen(key) ==
    IF Sub(key, 1, 3) = "AND" THEN 3 ELSE IF Sub(key, 1, 2) = "OR" THEN 2 ELSE 0

IsLogicalKey_Never(key) == FALSE

\* /^(AND|OR)(\s+#.*)?$/
IsLogicalKey(key) ==
    \E n \in {LogicalLen(key)} :
        /\ n > 0
        /\ \/ n = Len(key)
           \/ \E ws \in {RunLen(key, n + 1, SpaceChar)} :
                 /\ ws >= 1
                 /\ At(key, n + ws + 1) = "#"
                 /\ \A i \in (n + ws + 2)..Len(key) : At(key, i) \notin LineEnd

\* [a-zA-Z0-9_\.] and [a-zA-Z0-9_\.\(\)\*]
WordDotChar == WordChar \cup {"."}
KeyChar == WordChar \cup {".", "(", ")", "*"}

\* the operators of a column comparison, /\>\=?|\<\=?|\!?\=/
CompareOps == {">=", ">", "<=", "<", "!=", "="}
\* the operators of a condition key,
\* /\>\=?|\<\=?|\!|\<\>|\>\<|\!?~|REGEXP/i
KeyOps == {">=", ">", "<=", "<", "!", "<>", "><", "!~", "~", "REGEXP"}

\* \[(ops)\] at s[j]: the operator as written, "" when there is none (the \]
\* that follows leaves one operator at most)
OperatorText(s, j, hits) ==
    IF hits = {} THEN "" ELSE Sub(s, j + 1, j + Len(CHOOSE o \in hits : TRUE))
OperatorAt(s, j, ops) ==
    OperatorText(s, j, {o \in ops : /\ At(s, j) = "["
                                    /\ UpperText(Sub(s, j + 1, j + Len(o))) = o
                                    /\ At(s, j + Len(o) + 1) = "]"})

NoColCmp == [found |-> FALSE, left |-> "", operator |-> "", right |-> ""]

\* /([a-zA-Z0-9_\.]+)\[(?<operator>...)\]([a-zA-Z0-9_\.]+)/i matched at s[i],
\* n1 being the length of the first run and r where the last one starts
ColCmp(s, i, n1, o, r) ==
    [found |-> n1 >= 1 /\ o # "" /\ RunLen(s, r, WordDotChar) >= 1,
     left |-> Sub(s, i, i + n1 - 1),
     operator |-> o,
     right |-> Sub(s, r, r + RunLen(s, r, WordDotChar) - 1)]

ColCmpOp(s, i, n1, o) == ColCmp(s, i, n1, o, i + n1 + Len(o) + 2)

ColCmpAt(s, i) ==
    With(RunLen(s, i, WordDotChar), LAMBDA n1 :
         ColCmpOp(s, i, n1, OperatorAt(s, i + n1, CompareOps)))

\* the leftmost match of the column comparison pattern in s
ColCmpMatch(s) ==
    With(First({i \in 1..Len(s) : ColCmpAt(s, i).found}), LAMBDA i :
         IF i = 0 THEN NoColCmp ELSE ColCmpAt(s, i))

\* the run of n key characters at key[i] and the operator that follows it
KeyRun(key, i, n) ==
    [found |-> TRUE, column |-> Sub(key, i, i + n - 1),
     operator |-> OperatorAt(key, i + n, KeyOps)]

\* the same with no operator looked for
KeyMatch_NoOperator(key) ==
    With(First({i \in 1..Len(key) : At(key, i) \in KeyChar}), LAMBDA i :
         IF i = 0 THEN [found |-> FALSE, column |-> "", operator |-> ""]
         ELSE [found |-> TRUE, column |-> Sub(key, i, i + RunLen(key, i, KeyChar) - 1),
               operator |-> ""])

\* key.match(/([a-zA-Z0-9_\.\(\)\*]+)(\[(?<operator>...)\])?/i): the leftmost
\* run of key characters and the operator that follows it, if any
KeyMatch(key) ==
    With(First({i \in 1..Len(key) : At(key, i) \in KeyChar}), LAMBDA i :
         IF i = 0 THEN [found |-> FALSE, column |-> "", operator |-> ""]
         ELSE KeyRun(key, i, RunLen(key, i, KeyChar)))

\* the test that keeps a LIKE item from being wrapped in %...%:
\* /(\[.+\]|[\*\?\!\%#^-_]|%.+|.+%)/  (^-_ is the range from ^ to _)
LikeWildcard == {"*", "?", "!", "%", "#", "^", "_"}
HasWildcard(s) ==
    \/ \E i \in 1..Len(s) : At(s, i) \in LikeWildcard
    \/ \E i, j \in 1..Len(s) :
          /\ At(s, i) = "[" /\ At(s, j) = "]" /\ j >= i + 2
          /\ \A m \in (i + 1)..(j - 1) : At(s, m) \notin LineEnd

\* value[key] of an object or array
RECURSIVE Prop(_, _)
Prop(kids, key) ==
    IF Len(kids) = 0 THEN Undefined
    ELSE IF kids[1].k = key THEN kids[1].v ELSE Prop(Tail(kids), key)

Truthy(v) ==
    CASE v.t \in {"null", "undefined"} -> FALSE
      [] v.t = "boolean" -> v.s = "true"
      [] v.t = "string" -> v.s # ""
      [] v.t = "number" -> v.s \notin {"0", "NaN"}
      [] OTHER -> TRUE

\* the IN list of a value: one name `${mapKey}${index}_i` per item
RECURSIVE InList(_, _, _, _, _)
InList(items, i, mk, c, placeholders) ==
    IF i > Len(items) THEN Built(c, JoinSegs(placeholders, ", "))
    ELSE InList(items, i + 1, mk, Bind(c, mk \o DecStr(i - 1) \o "_i", items[i].v),
                Append(placeholders, Seg("param", mk \o DecStr(i - 1) \o "_i")))

\* `${column}${word}${placeholders.join(', ')})` pushed
InStep(column, word, l) == Step(l.c, <<column \o Sql(word) \o l.segs \o Sql(")")>>)

\* itemStr of a LIKE item
LikeItem(itemStr) == IF ~HasWildcard(itemStr) THEN "%" \o itemStr \o "%" ELSE itemStr

\* the LIKE clauses of a value: one name `${mapKey}L${index}` per item
RECURSIVE LikeList(_, _, _, _, _, _, _, _)
LikeList(items, i, mk, column, operator, connector, c, likeClauses) ==
    IF i > Len(items) THEN Built(c, JoinSegs(likeClauses, connector))
    ELSE LikeList(items, i + 1, mk, column, operator, connector,
                  Bind(c, mk \o "L" \o DecStr(i - 1), Str(LikeItem(ToStr(items[i].v)))),
                  Append(likeClauses,
                         column \o Sql((IF operator = "!~" THEN " NOT" ELSE "") \o " LIKE ")
                                \o Seg("param", mk \o "L" \o DecStr(i - 1))))

\* `(${likeClauses.join(connector)})` pushed
LikeStep(l) == Step(l.c, <<Sql("(") \o l.segs \o Sql(")")>>)

\* Array.isArray(data[0]) && (valueArray.AND || valueArray.OR)
LikeKeyed(valueArray) ==
    /\ IsArray(Elem(valueArray, 0))
    /\ \/ Truthy(Prop(valueArray.kids, "AND"))
       \/ Truthy(Prop(valueArray.kids, "OR"))

\* the branch of the operators ~ and !~
implodeLike(column, operator, valueArray, mk, c) ==
    IF LikeKeyed(valueArray)
    THEN LikeStep(LikeList(Elem(valueArray, 0).kids, 1, mk, column, operator,
                           " " \o valueArray.kids[1].k \o " ", c, <<>>))
    ELSE LikeStep(LikeList(valueArray.kids, 1, mk, column, operator, " OR ", c, <<>>))

\* the branch of the operators >, >=, < and <=
implodeCompare(column, operator, value, mk, c) ==
    IF value.t = "number"
    THEN Step(Bind(c, mk, value), <<column \o Sql(" " \o operator \o " ") \o Seg("param", mk)>>)
    ELSE IF isRaw(value) THEN RawStep(value, c, column \o Sql(" " \o operator \o " "))
    ELSE Step(Bind(c, mk, value), <<column \o Sql(" " \o operator \o " ") \o Seg("param", mk)>>)

\* switch (type) of the operator ! (negated) and of a key with no operator
implodeSwitch(column, negated, value, mk, c) ==
    IF TypeOf(value) = "object"
    THEN IF value.t = "null"
         THEN Step(c, <<column \o Sql(IF negated THEN " IS NOT NULL" ELSE " IS NULL")>>)
         ELSE IF IsArray(value)
         THEN InStep(column, IF negated THEN " NOT IN (" ELSE " IN (",
                     InList(value.kids, 1, mk, c, <<>>))
         ELSE IF isRaw(value)
         THEN RawStep(value, c, column \o Sql(IF negated THEN " != " ELSE " = "))
         ELSE Step(c, <<>>)
    ELSE Step(Bind(c, mk, typeMap(value, TypeOf(value))),
              <<column \o Sql(IF negated THEN " != " ELSE " = ") \o Seg("param", mk)>>)

\* the branch of the operators <> and ><
implodeBetween(column, operator, value, mk, c) ==
    IF IsArray(value)
    THEN Step(Bind(Bind(c, mk \o "a", Elem(value, 0)), mk \o "b", Elem(value, 1)),
              <<Sql("(") \o column \o Sql(IF operator = "><" THEN " NOT" ELSE "")
                \o Sql(" BETWEEN ") \o Seg("param", mk \o "a") \o Sql(" AND ")
                \o Seg("param", mk \o "b") \o Sql(")")>>)
    ELSE Step(c, <<>>)

\* the branches on match.groups.operator
implodeOperator(column, operator, value, mk, c) ==
    IF operator \in {">", ">=", "<", "<="} THEN implodeCompare(column, operator, value, mk, c)
    ELSE IF operator = "!" THEN implodeSwitch(column, TRUE, value, mk, c)
    ELSE IF operator \in {"~", "!~"}
    THEN implodeLike(column, operator, IF IsArray(value) THEN value ELSE Arr(<<value>>), mk, c)
    ELSE IF operator \in {"<>", "><"} THEN implodeBetween(column, operator, value, mk, c)
    ELSE IF operator = "REGEXP"
    THEN Step(Bind(c, mk, value), <<column \o Sql(" REGEXP ") \o Seg("param", mk)>>)
    ELSE IF operator # ""
    THEN \* an operator the pattern accepts under the i flag and no branch handles
         Step(c, <<>>)
    ELSE implodeSwitch(column, FALSE, value, mk, c)

\* column of a condition key: a key with both parentheses is taken as a SQL
\* function and is not quoted
KeyColumn(name) ==
    IF Includes(name, "(") /\ Includes(name, ")") THEN Pieces(Seg("name", name))
    ELSE Quoted(columnQuote(name))

implodeColumn(column, operator, value, mk, c) ==
    IF ~column.ok THEN Step(Fail(c), <<>>)
    ELSE implodeOperator(column.segs, operator, value, mk, c)

\* a key that is not a column comparison
implodeKey(match, value, mk, c) ==
    IF ~match.found THEN Step(Fail(c), <<>>)
    ELSE implodeColumn(KeyColumn(match.column), match.operator, value, mk, c)

\* a column comparison "column1[>=]column2"; value.match needs a string
implodeColumns(match, left, right, value, c) ==
    IF value.t # "string" \/ ~left.ok \/ ~right.ok THEN Step(Fail(c), <<>>)
    ELSE Step(c, <<left.segs \o Sql(" " \o match.operator \o " ") \o right.segs>>)

implodeComparison(match, value, c) ==
    implodeColumns(match, Quoted(columnQuote(match.left)), Quoted(columnQuote(match.right)),
                   value, c)

\* one entry of dataImplode that is not a logical key, with its fresh mapKey mk
\* (c is the state after this.mapKey())
implodeLeaf(key, value, mk, c) ==
    With(ColCmpMatch(ToStr(value)), LAMBDA match :
         IF IsIntKey(key) /\ match.found THEN implodeComparison(match, value, c)
         ELSE implodeKey(KeyMatch(key), value, mk, c))

RECURSIVE dataImplode(_, _, _), implodeFrom(_, _, _, _, _), innerFrom(_, _, _, _, _, _)

\* innerConjunct(data, map, conjunctor, outerConjunctor)
innerConjunct(data, c, conjunctor, outerConjunctor) ==
    innerFrom(data.kids, 1, c, <<>>, conjunctor, outerConjunctor)

innerFrom(items, i, c, stack, conjunctor, outerConjunctor) ==
    IF ~c.ok THEN Built(c, <<>>)
    ELSE IF i > Len(items) THEN Built(c, JoinSegs(stack, outerConjunctor \o " "))
    ELSE With(dataImplode(items[i].v, c, conjunctor), LAMBDA r :
              innerFrom(items, i + 1, r.c, Append(stack, Sql("(") \o r.segs \o Sql(")")),
                        conjunctor, outerConjunctor))

\* the group of a logical key
implodeGroup(key, value, c, conjunctor) ==
    IF IsArray(value) /\ IsArray(Elem(value, 0))
    THEN innerConjunct(value, c, " " \o Sub(key, 1, LogicalLen(key)), conjunctor)
    ELSE dataImplode(value, c, " " \o Sub(key, 1, LogicalLen(key)))

\* the loop of dataImplode from entry i on
implodeFrom(entries, i, c, stack, conjunctor) ==
    IF ~c.ok THEN Built(c, <<>>)
    ELSE IF i > Len(entries) THEN Built(c, JoinSegs(stack, conjunctor \o " "))
    ELSE IF TypeOf(entries[i].v) = "object" /\ IsLogicalKey(entries[i].k)
    THEN With(implodeGroup(entries[i].k, entries[i].v, c, conjunctor), LAMBDA r :
              implodeFrom(entries, i + 1, r.c, Append(stack, Sql("(") \o r.segs \o Sql(")")),
                          conjunctor))
    ELSE With(implodeLeaf(entries[i].k, entries[i].v, mapKey(c.guid),
                          [c EXCEPT !.guid = c.guid + 1]), LAMBDA r :
              implodeFrom(entries, i + 1, r.c, stack \o r.push, conjunctor))

\* Object.entries(data) of dataImplode: the characters of a string
DataEntries(data) ==
    IF data.t = "string"
    THEN [i \in 1..Len(data.s) |-> E(DecStr(i - 1), Str(At(data.s, i)))]
    ELSE Entries(data)

\* dataImplode(data, map, conjunctor): Object.entries throws on null and
\* undefined
dataImplode(data, c, conjunctor) ==
    IF data.t \in {"null", "undefined"} THEN Built(Fail(c), <<>>)
    ELSE implodeFrom(DataEntries(data), 1, c, <<>>, conjunctor)

----------------------------------------------------------------------------
(* The clause assembler: arrayQuote, whereClause *)

\* the quoters applied to a value: the pattern is tested on String(value);
\* columnQuote then calls value.includes, which only strings and arrays have
tableQuoteV(v) == tableQuote(ToStr(v))
columnQuoteV(v) ==
    IF v.t = "string" THEN columnQuote(v.s)
    ELSE IF v.t = "array" /\ MatchesColumnName(ToStr(v))
    THEN Ok("\"" \o ToStr(v) \o "\"")
    ELSE Thrown("Incorrect column name")

\* the values of an array
Values(v) == [i \in 1..Len(v.kids) |-> v.kids[i].v]

\* connection.escape(value) of the driver, for scalars: a string is wrapped in
\* single quotes with its quotes and backslashes escaped
RECURSIVE EscapeText(_)
EscapeText(s) ==
    IF Len(s) = 0 THEN ""
    ELSE (IF At(s, 1) \in {"'", "\"", "\\"} THEN "\\" \o At(s, 1)
          ELSE IF At(s, 1) = "\n" THEN "\\n"
          ELSE IF At(s, 1) = "\r" THEN "\\r"
          ELSE IF At(s, 1) = "\t" THEN "\\t"
          ELSE At(s, 1)) \o EscapeText(Sub(s, 2, Len(s)))

escape(v) ==
    CASE v.t = "string" -> "'" \o EscapeText(v.s) \o "'"
      [] v.t \in {"null", "undefined"} -> "NULL"
      [] OTHER -> ToStr(v)

\* arrayQuote(array): numbers as they are, everything else through
\* this.connection.escape, which throws while this.connection is null: [ok, segs]
arrayQuote(array) ==
    IF connection = 0 /\ \E i \in 1..Len(array.kids) : array.kids[i].v.t # "number"
    THEN NoPieces
    ELSE Pieces(JoinSegs([i \in 1..Len(array.kids) |->
                            IF array.kids[i].v.t = "number"
                            THEN Seg("listed", array.kids[i].v.s)
                            ELSE Seg("escaped", escape(array.kids[i].v))], ","))

\* a list of values quoted as columns and joined: [ok, segs]
RECURSIVE QuoteAll(_, _, _)
QuoteAll(items, i, acc) ==
    IF i > Len(items) THEN Pieces(JoinSegs(acc, ","))
    ELSE With(Quoted(columnQuoteV(items[i])), LAMBDA q :
              IF ~q.ok THEN NoPieces ELSE QuoteAll(items, i + 1, Append(acc, q.segs)))

\* the keys whereClause removes from the conditions
StructuralKeys == {"GROUP", "ORDER", "HAVING", "LIMIT", "LIKE", "MATCH"}

\* { ...where } without the structural keys
Conditions(where) == Obj(SelectSeq(Entries(where), LAMBDA e : e.k \notin StructuralKeys))

\* what an entry of ORDER given as an object pushes on orderStack, column being
\* its quoted key: [ok, push]
OrderList(column, list) ==
    IF ~list.ok THEN [ok |-> FALSE, push |-> <<>>]
    ELSE [ok |-> TRUE,
          push |-> <<Sql("FIELD(") \o column.segs \o Sql(", ") \o list.segs \o Sql(")")>>]

OrderColumn(column, direction) ==
    IF ~column.ok THEN [ok |-> FALSE, push |-> <<>>]
    ELSE IF IsArray(direction) THEN OrderList(column, arrayQuote(direction))
    ELSE [ok |-> TRUE, push |-> <<column.segs \o Sql(" " \o direction.s)>>]

OrderPosition(column) == [ok |-> column.ok, push |-> <<column.segs>>]

OrderEntry(column, direction) ==
    IF IsArray(direction) \/ direction \in {Str("ASC"), Str("DESC")}
    THEN OrderColumn(Quoted(columnQuote(column)), direction)
    ELSE IF IsIntKey(column) THEN OrderPosition(Quoted(columnQuoteV(direction)))
    ELSE [ok |-> TRUE, push |-> <<>>]

\* the entries of ORDER given as an object, from entry i on
RECURSIVE OrderObject(_, _, _)
OrderObject(es, i, orderStack) ==
    IF i > Len(es) THEN Pieces(JoinSegs(orderStack, ","))
    ELSE With(OrderEntry(es[i].k, es[i].v), LAMBDA e :
              IF ~e.ok THEN NoPieces ELSE OrderObject(es, i + 1, orderStack \o e.push))

\* `${before}${list}` appended, or the error thrown while quoting the list
ListClause(c, before, q) ==
    IF q.ok THEN Built(c, Sql(before) \o q.segs) ELSE Built(Fail(c), <<>>)

\* if (where.GROUP) { ... } up to the HAVING part
GroupBy(group, c) ==
    IF isRaw(group) THEN RawClause(group, c, Sql(" GROUP BY "))
    ELSE ListClause(c, " GROUP BY ",
                    IF IsArray(group) THEN QuoteAll(Values(group), 1, <<>>)
                    ELSE Quoted(columnQuoteV(group)))

HavingData(g, h) == Built(h.c, g.segs \o Sql(" HAVING ") \o h.segs)

\* if (where.HAVING) { ... } after the GROUP BY text g
Having(having, g) ==
    IF ~g.c.ok \/ ~Truthy(having) THEN g
    ELSE IF isRaw(having) THEN RawClause(having, g.c, g.segs \o Sql(" HAVING "))
    ELSE HavingData(g, dataImplode(having, g.c, " AND"))

\* the GROUP BY and HAVING part of whereClause
GroupClause(where, c) ==
    IF ~Truthy(Prop(Entries(where), "GROUP")) THEN Built(c, <<>>)
    ELSE Having(Prop(Entries(where), "HAVING"), GroupBy(Prop(Entries(where), "GROUP"), c))

\* if (where.ORDER) { ... }
OrderBy(order, c) ==
    IF ~Truthy(order) THEN Built(c, <<>>)
    ELSE IF isRaw(order) THEN RawClause(order, c, Sql(" ORDER BY "))
    ELSE ListClause(c, " ORDER BY ",
                    IF order.t = "object" THEN OrderObject(order.kids, 1, <<>>)
                    ELSE IF IsArray(order)
                    THEN QuoteAll(SelectSeq(Values(order), LAMBDA v : v.t = "string"), 1, <<>>)
                    ELSE Quoted(columnQuoteV(order)))

\* the ORDER BY part of whereClause
OrderClause(where, c) == OrderBy(Prop(Entries(where), "ORDER"), c)

\* if (where.LIMIT) { ... }: the values are interpolated as they are
Limit(limit) ==
    IF ~Truthy(limit) THEN <<>>
    ELSE IF limit.t = "number" THEN Sql(" LIMIT ") \o Seg("number", ToStr(limit))
    ELSE IF IsArray(limit) /\ Len(limit.kids) = 2
    THEN Sql(" LIMIT ") \o Seg("value", ToStr(Elem(limit, 1)))
         \o Sql(" OFFSET ") \o Seg("value", ToStr(Elem(limit, 0)))
    ELSE <<>>

\* the LIMIT part of whereClause
LimitClause(where) == Limit(Prop(Entries(where), "LIMIT"))

\* ` WHERE ${this.dataImplode(conditions, map, ' AND')}`
Prepended(before, d) == Built(d.c, Sql(before) \o d.segs)

WhereConditions(conditions, c) ==
    IF Len(conditions.kids) > 0 THEN Prepended(" WHERE ", dataImplode(conditions, c, " AND"))
    ELSE Built(c, <<>>)

\* whereClause += the clause Build makes in the state the text so far left
Clause(sofar, next) ==
    IF next.c.ok THEN Built(next.c, sofar.segs \o next.segs) ELSE Built(next.c, <<>>)

ThenClause(sofar, Build(_)) ==
    IF ~sofar.c.ok THEN Built(sofar.c, <<>>) ELSE Clause(sofar, Build(sofar.c))

WithLimit(where, sofar) ==
    IF sofar.c.ok THEN Built(sofar.c, sofar.segs \o LimitClause(where)) ELSE sofar

\* whereClause(where, map)
whereClause(where, c) ==
    IF TypeOf(where) = "object" /\ where.t # "null" /\ ~isRaw(where)
    THEN WithLimit(where,
                   ThenClause(ThenClause(WhereConditions(Conditions(where), c),
                                         LAMBDA w : GroupClause(where, w)),
                              LAMBDA g : OrderClause(where, g)))
    ELSE IF isRaw(where) THEN RawClause(where, c, Sql(" "))
    ELSE Built(c, <<>>)

----------------------------------------------------------------------------
(* The column projection compiler: columnPush *)

\* the run of characters of class cls at s[i]: [found, from, text]
RunAt(s, i, cls) ==
    IF i = 0 THEN [found |-> FALSE, from |-> 0, text |-> ""]
    ELSE [found |-> TRUE, from |-> i, text |-> Sub(s, i, i + RunLen(s, i, cls) - 1)]

\* the leftmost run of characters of class cls in s
FirstRun(s, cls) == RunAt(s, First({i \in 1..Len(s) : At(s, i) \in cls}), cls)

\* \((?<alias>[a-zA-Z0-9_]+)\) at s[p], the pattern having begun at s[j], n
\* being the length of the run after s[p]: [len, alias]
AliasOf(s, j, p, n) ==
    IF At(s, p) = "(" /\ n >= 1 /\ At(s, p + n + 1) = ")"
    THEN [len |-> p + n + 2 - j, alias |-> Sub(s, p + 1, p + n)]
    ELSE [len |-> 0, alias |-> ""]

AliasFrom(s, j, p) == AliasOf(s, j, p, RunLen(s, p + 1, WordChar))

\* (?:\s*\((?<alias>[a-zA-Z0-9_]+)\))? at s[j]: [len, alias]
AliasAt(s, j) == AliasFrom(s, j, j + RunLen(s, j, SpaceChar))

\* (?:\s*\[(?<type>(?:String|Bool|Int|Number|Object|JSON))\])? at s[j], the
\* type as written, "" when there is none
ColumnTypes == {"STRING", "BOOL", "INT", "NUMBER", "OBJECT", "JSON"}
TypeAt(s, j) == OperatorAt(s, j + RunLen(s, j, SpaceChar), ColumnTypes)

ColumnAlias(value, run, a) ==
    [found |-> run.found, column |-> run.text, alias |-> a.alias,
     type |-> TypeAt(value, run.from + Len(run.text) + a.len)]

ColumnRun(value, run) == ColumnAlias(value, run, AliasAt(value, run.from + Len(run.text)))

\* value.match(...) of a column string: [found, column, alias, type]
ColumnMatch(value) == ColumnRun(value, FirstRun(value, WordDotChar))

Pushed(c, segs, columns) == [c |-> c, segs |-> segs, columns |-> columns]

RECURSIVE columnPush(_, _, _, _), columnPushFrom(_, _, _, _, _, _)

\* stack.push(this.columnQuote(key)) of a key that scopes a nested list
ScopeKey(key, scoped) ==
    IF scoped THEN OrderPosition(Quoted(columnQuote(key))) ELSE [ok |-> TRUE, push |-> <<>>]

\* an entry whose value is an array
columnNested(es, i, c, stack, root, isJoin, scope) ==
    IF ~scope.ok THEN Pushed(Fail(c), <<>>, es)
    ELSE With(columnPush(es[i].v, c, FALSE, isJoin), LAMBDA sub :
              columnPushFrom([es EXCEPT ![i] = E(es[i].k, sub.columns)], i + 1, sub.c,
                             stack \o scope.push \o <<sub.segs>>, root, isJoin))

\* an entry whose value is a Raw under a name: `${raw} AS ${column}`
columnRaw(es, i, c, stack, root, isJoin, raw, column) ==
    IF ~raw.ok \/ ~column.ok THEN Pushed(Fail(c), <<>>, es)
    ELSE columnPushFrom(es, i + 1, [c EXCEPT !.map = raw.map],
                        Append(stack, Seg("raw", raw.s) \o Sql(" AS ") \o column.segs),
                        root, isJoin)

\* columns[key] of a column given with an alias
Renamed(match) ==
    Str(match.alias \o (IF match.type # "" THEN " [" \o match.type \o "]" ELSE ""))

\* an entry that names a column
columnNamed(es, i, c, stack, root, isJoin, match, column, alias) ==
    IF ~column.ok THEN Pushed(Fail(c), <<>>, es)
    ELSE IF match.alias = ""
    THEN columnPushFrom(es, i + 1, c, Append(stack, column.segs), root, isJoin)
    ELSE IF ~alias.ok THEN Pushed(Fail(c), <<>>, es)
    ELSE columnPushFrom([es EXCEPT ![i] = E(es[i].k, Renamed(match))], i + 1, c,
                        Append(stack, column.segs \o Sql(" AS ") \o alias.segs),
                        root, isJoin)

columnString(es, i, c, stack, root, isJoin, match) ==
    columnNamed(es, i, c, stack, root, isJoin, match,
                Quoted(columnQuote(match.column)), Quoted(columnQuote(match.alias)))

\* the loop of columnPush from entry i on; es holds the entries with the
\* replacements made so far (columns[key] = alias)
columnPushFrom(es, i, c, stack, root, isJoin) ==
    IF ~c.ok THEN Pushed(c, <<>>, es)
    ELSE IF i > Len(es) THEN Pushed(c, JoinSegs(stack, ","), es)
    ELSE IF IsArray(es[i].v)
    THEN columnNested(es, i, c, stack, root, isJoin,
                      ScopeKey(es[i].k, ~IsIntKey(es[i].k) /\ root /\ Len(es) = 1))
    ELSE IF ~IsIntKey(es[i].k) /\ isRaw(es[i].v)
    THEN columnRaw(es, i, c, stack, root, isJoin, buildRaw(es[i].v, c.map),
                   Quoted(columnQuote(FirstRun(es[i].k, WordDotChar).text)))
    ELSE IF IsIntKey(es[i].k) /\ es[i].v.t = "string"
    THEN IF isJoin /\ Includes(es[i].v.s, "*") THEN Pushed(Fail(c), <<>>, es)
         ELSE columnString(es, i, c, stack, root, isJoin, ColumnMatch(es[i].v.s))
    ELSE columnPushFrom(es, i + 1, c, stack, root, isJoin)

\* columns as the loop leaves it
ColumnsLeft(columns, r) ==
    Pushed(r.c, r.segs,
           IF columns.t \in {"array", "object"} THEN [columns EXCEPT !.kids = r.columns]
           ELSE columns)

\* columnPush(columns, map, root, isJoin): the select list, and columns as the
\* call leaves it
columnPush(columns, c, root, isJoin) ==
    IF columns = Str("*") THEN Pushed(c, Sql("*"), columns)
    ELSE IF columns.t \in {"null", "undefined"} THEN Pushed(Fail(c), <<>>, columns)
    ELSE ColumnsLeft(columns,
                     columnPushFrom(IF columns.t = "string" THEN Arr(<<columns>>).kids
                                    ELSE Entries(columns),
                                    1, c, <<>>, root, isJoin))

----------------------------------------------------------------------------
(* The join clause builder: buildJoin *)

\* the join keywords of joinArray, by direction tag
JoinTags == {"<>", "<", "><", ">"}
JoinWord(tag) ==
    CASE tag = ">" -> "LEFT" [] tag = "<" -> "RIGHT"
      [] tag = "<>" -> "FULL" [] tag = "><" -> "INNER"

\* \s?(\((?<alias>[a-zA-Z0-9_]+)\))? at s[p]: the alias, "" when there is none
JoinAliasFrom(s, p) == AliasFrom(s, p, p).alias
JoinAliasAt(s, p) == JoinAliasFrom(s, IF At(s, p) \in SpaceChar THEN p + 1 ELSE p)

JoinTable(s, tag, from, n) ==
    [found |-> n >= 1, join |-> tag, table |-> Sub(s, from, from + n - 1),
     alias |-> JoinAliasAt(s, from + n)]

JoinTagged(s, tag, from) == JoinTable(s, tag, from, RunLen(s, from, WordChar))

\* subTable.match(/(\[(?<join>\<\>?|\>\<?)\])?(?<table>[a-zA-Z0-9_]+)\s?
\*                 (\((?<alias>[a-zA-Z0-9_]+)\))?/) matched at s[i]
JoinKeyAt(s, i) ==
    With(OperatorAt(s, i, JoinTags), LAMBDA tag :
         JoinTagged(s, tag, IF tag # "" THEN i + Len(tag) + 2 ELSE i))

JoinKeyMatch(s) ==
    With(First({i \in 1..Len(s) : JoinKeyAt(s, i).found}), LAMBDA i :
         IF i = 0 THEN [found |-> FALSE, join |-> "", table |-> "", alias |-> ""]
         ELSE JoinKeyAt(s, i))

\* `${quoted table}."${name}"`
TableColumn(tq, name) ==
    [ok |-> tq.ok, segs |-> tq.segs \o Sql(".\"") \o Seg("name", name) \o Sql("\"")]

\* `${leftSide} = ${rightSide}`
JoinPair(leftSide, rightSide) ==
    IF ~leftSide.ok \/ ~rightSide.ok THEN NoPieces
    ELSE Pieces(leftSide.segs \o Sql(" = ") \o rightSide.segs)

JoinSides(table, target, key, value) ==
    JoinPair(IF Includes(key, ".") THEN Quoted(columnQuote(key))
             ELSE TableColumn(Quoted(tableQuote(table)), key),
             TableColumn(Quoted(tableQuote(target)), ToStr(value)))

\* the ON predicate of a relation given as entries: [ok, segs]
RECURSIVE JoinOn(_, _, _, _, _)
JoinOn(es, i, table, target, joins) ==
    IF i > Len(es) THEN Pieces(Sql("ON ") \o JoinSegs(joins, " AND "))
    ELSE With(JoinSides(table, target, es[i].k, es[i].v), LAMBDA pair :
              IF ~pair.ok THEN NoPieces
              ELSE JoinOn(es, i + 1, table, target, Append(joins, pair.segs)))

\* relationStr of a relation joined to target
Relation(relation, table, target) ==
    IF relation.t = "string"
    THEN Pieces(Sql("USING (\"") \o Seg("name", relation.s) \o Sql("\")"))
    ELSE IF IsArray(relation) /\ Truthy(Elem(relation, 0)) /\ Elem(relation, 0).t = "string"
    THEN Pieces(Sql("USING (\"") \o Seg("name", ArrayJoin(relation, "\", \"")) \o Sql("\")"))
    ELSE IF TypeOf(relation) = "object" /\ relation.t # "null"
    THEN JoinOn(Entries(relation), 1, table, target, <<>>)
    ELSE Pieces(Seg("value", ToStr(relation)))

\* tableName of a joined table
TableName(tq, aq, aliased) ==
    IF ~tq.ok \/ (aliased /\ ~aq.ok) THEN NoPieces
    ELSE Pieces(tq.segs \o Sql(" ") \o (IF aliased THEN Sql("AS ") \o aq.segs \o Sql(" ")
                                        ELSE <<>>))

\* `${joinArray[match.groups.join]} JOIN ${tableName}${relationStr}`
JoinClause(word, relationStr, tableName) ==
    IF ~relationStr.ok \/ ~tableName.ok THEN NoPieces
    ELSE Pieces(Sql(word \o " JOIN ") \o tableName.segs \o relationStr.segs)

JoinEntry(table, match, relation) ==
    JoinClause(JoinWord(match.join),
               Relation(relation, table, IF match.alias # "" THEN match.alias ELSE match.table),
               TableName(Quoted(tableQuote(match.table)), Quoted(tableQuote(match.alias)),
                         match.alias # ""))

\* the loop of buildJoin from entry i on
RECURSIVE buildJoinFrom(_, _, _, _)
buildJoinFrom(es, i, table, tableJoin) ==
    IF i > Len(es) THEN Pieces(JoinSegs(tableJoin, " "))
    ELSE With(JoinKeyMatch(es[i].k), LAMBDA match :
         IF ~match.found THEN NoPieces
         ELSE IF match.join = "" THEN buildJoinFrom(es, i + 1, table, tableJoin)
         ELSE With(JoinEntry(table, match, es[i].v), LAMBDA pushed :
                   IF ~pushed.ok THEN NoPieces
                   ELSE buildJoinFrom(es, i + 1, table, Append(tableJoin, pushed.segs))))

\* buildJoin(table, join): [ok, segs]
buildJoin(table, join) == buildJoinFrom(Entries(join), 1, table, <<>>)

----------------------------------------------------------------------------
(* selectContext *)

\* table.match(/(?<table>[a-zA-Z0-9_]+)\s*\((?<alias>[a-zA-Z0-9_]+)\)/i):
\* [found, table, alias] of the match at s[i], n being the length of the run
TableAlias(s, i, n, a) ==
    [found |-> n >= 1 /\ a.len > 0, table |-> Sub(s, i, i + n - 1), alias |-> a.alias]

TableRun(s, i, n) == TableAlias(s, i, n, AliasAt(s, i + n))

TableAliasAt(s, i) == TableRun(s, i, RunLen(s, i, WordChar))

\* the leftmost match
TableMatch(s) ==
    With(First({i \in 1..Len(s) : TableAliasAt(s, i).found}), LAMBDA i :
         IF i = 0 THEN [found |-> FALSE, table |-> "", alias |-> ""]
         ELSE TableAliasAt(s, i))

\* the result of selectContext: the state, the statement, and columns and where
\* as the call leaves them
Context(c, segs, columns, where) ==
    [c |-> c, segs |-> segs, columns |-> columns, where |-> where]

\* `${quotedTable} AS ${this.tableQuote(tableMatch.groups.alias)}`
Aliased(tq, aq) ==
    IF ~tq.ok \/ ~aq.ok THEN NoPieces ELSE Pieces(tq.segs \o Sql(" AS ") \o aq.segs)

\* tableQuery before the join
TableQuery(table, tableMatch) ==
    IF tableMatch.found
    THEN Aliased(Quoted(tableQuote(tableMatch.table)), Quoted(tableQuote(tableMatch.alias)))
    ELSE Quoted(tableQuote(table))

\* tableQuery += ' ' + this.buildJoin(table, join)
Joined(tableQuery, isJoin, joins) ==
    IF ~tableQuery.ok \/ (isJoin /\ ~joins.ok) THEN NoPieces
    ELSE Pieces(tableQuery.segs \o (IF isJoin THEN Sql(" ") \o joins.segs ELSE <<>>))

\* join is an object whose first key starts with "["
IsJoin(join) ==
    /\ Truthy(join) /\ TypeOf(join) = "object" /\ ~IsArray(join)
    /\ Len(Entries(join)) > 0 /\ At(Entries(join)[1].k, 1) = "["

\* where = join after the shift of the arguments made when there is no join
ShiftsWhere(join, columns, where, columnFn) ==
    IF columns = Null THEN where # Null \/ (TypeOf(join) = "object" /\ columnFn # Null)
    ELSE FALSE

\* columns and where after if (!isJoin) { ... }
ShiftedColumns(isJoin, join, columns, where, columnFn) ==
    IF isJoin THEN columns
    ELSE IF ShiftsWhere(join, columns, where, columnFn) THEN Null ELSE join

ShiftedWhere(isJoin, join, columns, where, columnFn) ==
    IF isJoin THEN where
    ELSE IF columns # Null THEN columns
    ELSE IF ShiftsWhere(join, columns, where, columnFn) THEN join ELSE Null

\* columnFn is a function name and gets no columns: columns = '*', where = join
Starred(columnFn, columns) ==
    /\ columnFn # Null /\ columnFn # Num("1") /\ ~isRaw(columnFn)
    /\ ~Truthy(columns) \/ isRaw(columns)

\* `${columnFn}(${this.columnPush(columns, map, true)})`
FnColumn(columnFn, pushed) ==
    IF columnFn = Null THEN pushed
    ELSE Pushed(pushed.c, Sql(ToStr(columnFn) \o "(") \o pushed.segs \o Sql(")"),
                pushed.columns)

RawColumn(c, columns, raw) ==
    IF raw.ok THEN Pushed([c EXCEPT !.map = raw.map], Seg("raw", raw.s), columns)
    ELSE Pushed(Fail(c), <<>>, columns)

\* column
ColumnExpr(columnFn, columns, c, isJoin) ==
    IF columnFn = Num("1") THEN Pushed(c, Sql("1"), columns)
    ELSE IF isRaw(columnFn) THEN RawColumn(c, columns, buildRaw(columnFn, c.map))
    ELSE FnColumn(columnFn, columnPush(columns, c, TRUE, isJoin /\ columnFn = Null))

\* `SELECT ${column} FROM ${tableQuery}${this.whereClause(where, map)}`
selectText(from, column, where, w) ==
    IF ~w.c.ok THEN Context(w.c, <<>>, column.columns, where)
    ELSE Context(w.c, Sql("SELECT ") \o column.segs \o Sql(" FROM ") \o from.segs \o w.segs,
                 column.columns, where)

selectColumn(c, from, columns, where, column) ==
    IF ~from.ok THEN Context(Fail(c), <<>>, columns, where)
    ELSE IF ~column.c.ok THEN Context(column.c, <<>>, column.columns, where)
    ELSE selectText(from, column, where, whereClause(where, column.c))

selectFrom(c, from, isJoin, columns, where, columnFn) ==
    selectColumn(c, from, columns, where, ColumnExpr(columnFn, columns, c, isJoin))

\* the part of selectContext after if (!isJoin) { ... }
selectShifted(c, from, isJoin, join, columns, where, columnFn) ==
    selectFrom(c, from, isJoin,
               IF Starred(columnFn, columns) THEN Str("*") ELSE columns,
               IF Starred(columnFn, columns) THEN join
               ELSE IF columnFn = Num("1") /\ where = Null THEN columns
               ELSE where,
               columnFn)

selectJoined(table, c, isJoin, join, columns, where, columnFn) ==
    selectShifted(c, Joined(TableQuery(table, TableMatch(table)), isJoin, buildJoin(table, join)),
                  isJoin, join,
                  ShiftedColumns(isJoin, join, columns, where, columnFn),
                  ShiftedWhere(isJoin, join, columns, where, columnFn), columnFn)

\* selectContext(table, map, join, columns, where, columnFn); columnFn is Null
\* when the caller gives none
selectContext(table, c, join, columns, where, columnFn) ==
    selectJoined(table, c, IsJoin(join), join, columns, where, columnFn)

----------------------------------------------------------------------------
(* The statements of the verbs: select, get, has, aggregate, insert, update,
   delete, replace, each up to its call of exec *)

\* JSON.stringify(value)
RECURSIVE JsonText(_, _, _)
JsonText(s, i, acc) ==
    IF i > Len(s) THEN acc
    ELSE JsonText(s, i + 1,
                  acc \o (IF At(s, i) \in {"\"", "\\"} THEN "\\" ELSE "") \o At(s, i))

RECURSIVE Json(_), JsonMembers(_)
JsonMembers(es) ==
    "{" \o Join([i \in 1..Len(es) |->
                    "\"" \o JsonText(es[i].k, 1, "") \o "\":" \o Json(es[i].v)], ",") \o "}"

Json(v) ==
    CASE v.t \in {"number", "boolean"} -> v.s
      [] v.t = "string" -> "\"" \o JsonText(v.s, 1, "") \o "\""
      [] v.t \in {"null", "undefined"} -> "null"
      [] v.t = "array" ->
            "[" \o Join([i \in 1..Len(v.kids) |-> Json(v.kids[i].v)], ",") \o "]"
      [] OTHER -> JsonMembers(SelectSeq(Entries(v), LAMBDA e : e.v.t # "undefined"))

\* delete object[key]
DeleteKey(v, key) ==
    IF v.t \in {"object", "array"}
    THEN [v EXCEPT !.kids = SelectSeq(v.kids, LAMBDA e : e.k # key)]
    ELSE v

\* key without the match that has its bracket at key[i]; the match begins with
\* the white space before the bracket
StripFrom(key, i) ==
    IF i = 0 THEN key
    ELSE Sub(key, 1, First({j \in 1..i : \A m \in j..(i - 1) : At(key, m) \in SpaceChar}) - 1)

\* key.replace(/(\s*\[(JSON|...)\]$)/i, '') for the bracketed words tags
StripSuffix(key, tags) ==
    StripFrom(key, First({i \in 1..Len(key) :
                             /\ At(key, i) = "[" /\ At(key, Len(key)) = "]"
                             /\ UpperText(Sub(key, i + 1, Len(key) - 1)) \in tags}))

\* the value a data field is bound to by insert and update
DataValue(value) ==
    IF TypeOf(value) = "object"
    THEN IF value.t = "null" THEN Null ELSE Str(Json(value))
    ELSE typeMap(value, TypeOf(value))

\* what a verb hands to exec: called is FALSE when the verb returns without
\* calling exec
Query(c, segs) == [c |-> c, segs |-> segs, called |-> c.ok]
NoQuery(c) == [c |-> c, segs |-> <<>>, called |-> FALSE]

\* the statement of a verb that wraps the text of selectContext
Wrapped(before, q, after) ==
    Query(q.c, IF q.c.ok THEN before \o q.segs \o after ELSE <<>>)

\* select(table, join, columns, where)
selectQuery(table, join, columns, where, c) ==
    Wrapped(<<>>, selectContext(table, c, join, columns, where, Null), <<>>)

WithoutLimit_Kept(v) == v

\* delete value.LIMIT when value has a LIMIT
WithoutLimit(v) == IF Truthy(Prop(Entries(v), "LIMIT")) THEN DeleteKey(v, "LIMIT") ELSE v

\* get(table, join, columns, where): a LIMIT of the caller is deleted first
getQuery(table, join, columns, where, c) ==
    Wrapped(<<>>,
            selectContext(table, c, join,
                          IF where = Null /\ Truthy(columns) THEN WithoutLimit(columns)
                          ELSE columns,
                          IF where # Null THEN WithoutLimit(where) ELSE where,
                          Null),
            Sql(" LIMIT 1"))

\* has(table, join, where)
hasQuery(table, join, where, c) ==
    Wrapped(Sql("SELECT EXISTS("), selectContext(table, c, join, Null, where, Num("1")),
            Sql(")"))

\* aggregate(type, table, join, column, where)
aggregateQuery(type, table, join, column, where, c) ==
    Wrapped(<<>>, selectContext(table, c, join, column, where, Str(UpperText(type))), <<>>)

\* `${verb}${this.tableQuote(table)}${set}${this.whereClause(where, map)}`
Statement(verb, tq, set, w) ==
    IF ~w.c.ok THEN Query(w.c, <<>>)
    ELSE Query(w.c, Sql(verb) \o tq.segs \o set \o w.segs)

StatementOn(verb, tq, set, where, c) ==
    IF ~tq.ok THEN Query(Fail(c), <<>>)
    ELSE Statement(verb, tq, set, whereClause(where, c))

\* delete(table, where)
deleteQuery(table, where, c) ==
    StatementOn("DELETE FROM ", Quoted(tableQuote(table)), <<>>, where, c)

\* [...new Set(columns)] over the keys of all records, in first-seen order
RECURSIVE UniqueKeys(_, _, _)
UniqueKeys(datas, i, acc) ==
    IF i > Len(datas) THEN acc
    ELSE UniqueKeys(datas, i + 1,
                    acc \o SelectSeq([j \in 1..Len(Entries(datas[i].v)) |->
                                         Entries(datas[i].v)[j].k],
                                     LAMBDA k : \A m \in 1..Len(acc) : acc[m] # k))

\* one value of a record of insert that is not a Raw, under its fresh mapKey mk
insertValue(data, key, mk, c) ==
    Step(Bind(c, mk, IF HasKey(Entries(data), key) THEN DataValue(Prop(Entries(data), key))
                     ELSE Null),
         <<Seg("param", mk)>>)

\* the values of one record of insert, from column j on
RECURSIVE insertValues(_, _, _, _, _)
insertValues(data, columns, j, c, values) ==
    IF ~c.ok THEN Built(c, <<>>)
    ELSE IF j > Len(columns)
    THEN Built(c, Sql("(") \o JoinSegs(values, ", ") \o Sql(")"))
    ELSE With(IF isRaw(Prop(Entries(data), columns[j]))
              THEN RawStep(Prop(Entries(data), columns[j]), c, <<>>)
              ELSE insertValue(data, columns[j], mapKey(c.guid),
                               [c EXCEPT !.guid = c.guid + 1]),
              LAMBDA r : insertValues(data, columns, j + 1, r.c, values \o r.push))

RECURSIVE insertRows(_, _, _, _, _)
insertRows(datas, columns, i, c, stack) ==
    IF ~c.ok THEN Built(c, <<>>)
    ELSE IF i > Len(datas) THEN Built(c, JoinSegs(stack, ", "))
    ELSE With(insertValues(datas[i].v, columns, 1, c, <<>>), LAMBDA r :
              insertRows(datas, columns, i + 1, r.c, Append(stack, r.segs)))

\* fields.join(', ') over the quoted columns: [ok, segs]
RECURSIVE insertFields(_, _, _)
insertFields(columns, j, fields) ==
    IF j > Len(columns) THEN Pieces(JoinSegs(fields, ", "))
    ELSE With(Quoted(columnQuote(StripSuffix(columns[j], {"JSON"}))), LAMBDA q :
              IF ~q.ok THEN NoPieces ELSE insertFields(columns, j + 1, Append(fields, q.segs)))

\* `INSERT INTO ${table} (${fields}) VALUES ${stack}`
insertText(rows, fields, tq) ==
    IF ~rows.c.ok THEN Query(rows.c, <<>>)
    ELSE IF ~fields.ok \/ ~tq.ok THEN Query(Fail(rows.c), <<>>)
    ELSE Query(rows.c, Sql("INSERT INTO ") \o tq.segs \o Sql(" (") \o fields.segs
                       \o Sql(") VALUES ") \o rows.segs)

insertRecords(table, datas, columns, c) ==
    IF \E i \in 1..Len(datas) : datas[i].v.t \in {"null", "undefined"}
    THEN Query(Fail(c), <<>>)
    ELSE insertText(insertRows(datas, columns, 1, c, <<>>), insertFields(columns, 1, <<>>),
                    Quoted(tableQuote(table)))

insertList(table, datas, c) == insertRecords(table, datas, UniqueKeys(datas, 1, <<>>), c)

\* insert(table, datas)
insertQuery(table, datas, c) ==
    insertList(table, IF IsArray(datas) THEN datas.kids ELSE <<E("0", datas)>>, c)

\* the operator at key[e], after the first run of word characters
OperatorAfter(key, e) ==
    IF At(key, e) = "[" /\ At(key, e + 1) \in {"+", "-", "*", "/"} /\ At(key, e + 2) = "]"
    THEN At(key, e + 1) ELSE ""

UpdateRun(key, i) == IF i = 0 THEN "" ELSE OperatorAfter(key, i + RunLen(key, i, WordChar))

\* key.match(/(?<column>[a-zA-Z0-9_]+)(\[(?<operator>\+|\-|\*|\/)\])?/i).groups.operator
UpdateOperator(key) == UpdateRun(key, First({i \in 1..Len(key) : At(key, i) \in WordChar}))

\* a field of update that is not a Raw, under its fresh mapKey mk
updateBound(column, operator, value, mk, c) ==
    IF operator = ""
    THEN Step(Bind(c, mk, DataValue(value)), <<column \o Sql(" = ") \o Seg("param", mk)>>)
    ELSE IF value.t = "number"
    THEN Step(c, <<column \o Sql(" = ") \o column \o Sql(" " \o operator \o " ")
                   \o Seg("number", ToStr(value))>>)
    ELSE Step(c, <<>>)

\* one field of update, column being its quoted name
updateField(key, value, column, c) ==
    IF ~column.ok THEN Step(Fail(c), <<>>)
    ELSE IF isRaw(value) THEN RawStep(value, c, column.segs \o Sql(" = "))
    ELSE updateBound(column.segs, UpdateOperator(key), value, mapKey(c.guid),
                     [c EXCEPT !.guid = c.guid + 1])

\* the fields of update, from entry i on
RECURSIVE updateFields(_, _, _, _)
updateFields(es, i, c, fields) ==
    IF ~c.ok THEN Built(c, <<>>)
    ELSE IF i > Len(es) THEN Built(c, JoinSegs(fields, ", "))
    ELSE With(updateField(es[i].k, es[i].v,
                          Quoted(columnQuote(StripSuffix(es[i].k, {"JSON", "+", "-", "*", "/"}))),
                          c),
              LAMBDA r : updateFields(es, i + 1, r.c, fields \o r.push))

updateSet(table, f, where) ==
    IF ~f.c.ok THEN Query(f.c, <<>>)
    ELSE StatementOn("UPDATE ", Quoted(tableQuote(table)), Sql(" SET ") \o f.segs, where, f.c)

\* update(table, data, where)
updateQuery(table, data, where, c) ==
    updateSet(table,
              IF data.t \in {"null", "undefined"} THEN Built(Fail(c), <<>>)
              ELSE updateFields(Entries(data), 1, c, <<>>),
              where)

\* `${column} = REPLACE(${column}, ${mapKey}a, ${mapKey}b)` under the fresh
\* mapKey mk
replacePair(column, oldValue, newValue, mk, c) ==
    IF ~column.ok THEN Step(Fail(c), <<>>)
    ELSE Step(Bind(Bind(c, mk \o "a", Str(oldValue)), mk \o "b", newValue),
              <<column.segs \o Sql(" = REPLACE(") \o column.segs \o Sql(", ")
                \o Seg("param", mk \o "a") \o Sql(", ") \o Seg("param", mk \o "b")
                \o Sql(")")>>)

\* the REPLACE assignments of one column, from replacement j on
RECURSIVE replacePairs(_, _, _, _, _)
replacePairs(column, es, j, c, stack) ==
    IF ~c.ok \/ j > Len(es) THEN Step(c, stack)
    ELSE With(replacePair(Quoted(columnQuote(column)), es[j].k, es[j].v, mapKey(c.guid),
                          [c EXCEPT !.guid = c.guid + 1]),
              LAMBDA r : replacePairs(column, es, j + 1, r.c, stack \o r.push))

RECURSIVE replaceColumns(_, _, _, _)
replaceColumns(es, i, c, stack) ==
    IF ~c.ok \/ i > Len(es) THEN Step(c, stack)
    ELSE IF TypeOf(es[i].v) # "object" THEN replaceColumns(es, i + 1, c, stack)
    ELSE IF es[i].v.t = "null" THEN Step(Fail(c), stack)
    ELSE With(replacePairs(es[i].k, Entries(es[i].v), 1, c, stack), LAMBDA r :
              replaceColumns(es, i + 1, r.c, r.push))

replaceSet(table, r, where) ==
    IF ~r.c.ok THEN Query(r.c, <<>>)
    ELSE IF Len(r.push) = 0 THEN NoQuery(r.c)
    ELSE StatementOn("UPDATE ", Quoted(tableQuote(table)),
                     Sql(" SET ") \o JoinSegs(r.push, ", "), where, r.c)

\* replace(table, columns, where)
replaceQuery(table, columns, where, c) ==
    IF ~Truthy(columns) \/ TypeOf(columns) # "object" \/ Len(Entries(columns)) = 0
    THEN NoQuery(c)
    ELSE replaceSet(table, replaceColumns(Entries(columns), 1, c, <<>>), where)

\* the conversion of exec from named to positional parameters:
\* finalQuery.replace(key, '?') and values.push(value) for each entry of the map
RECURSIVE Positional(_, _, _, _)
Positional(map, i, finalQuery, values) ==
    IF i > Len(map) THEN [query |-> finalQuery, values |-> values]
    ELSE Positional(map, i + 1, ReplaceFirst(finalQuery, map[i].k, "?"),
                    Append(values, map[i].v))

----------------------------------------------------------------------------
(* The quoter applied to bounded names *)

MaxNameLen == 4
NameAlphabet == {"a", "Z", "7", "_", ".", "-", "\""}
Names == TextsUpTo(NameAlphabet, MaxNameLen)
Prefixes == {"", "p_"}

\* the fields of an instance as the constructor leaves them, its own
\* initConnection attempt still pending
Constructed ==
    /\ logging \in BOOLEAN /\ debugMode = FALSE /\ logs = <<>> /\ lastError = 0
    /\ connection = 0 /\ opens = <<[by |-> 0, pc |-> "connecting"]>>
    /\ conn = <<>> /\ calls = <<>> /\ issued = <<>> /\ trace = <<>>

\* the same once that attempt has opened the connection
Opened ==
    /\ logging \in BOOLEAN /\ debugMode = FALSE /\ logs = <<>> /\ lastError = 0
    /\ connection = 1 /\ opens = <<[by |-> 0, pc |-> "done"]>>
    /\ conn = <<>>
    /\ calls = <<>> /\ issued = <<>> /\ trace = <<>>

InitQuote ==
    /\ prefix \in Prefixes
    /\ guid = 0
    /\ arg \in Names
    /\ op = "none" /\ ret = Ok("")
    /\ Constructed /\ logging = FALSE

CallTableQuote ==
    /\ op = "none"
    /\ op' = "tableQuote" /\ ret' = tableQuote(arg)
    /\ UNCHANGED <<prefix, guid, instance, arg>>

CallColumnQuote ==
    /\ op = "none"
    /\ op' = "columnQuote" /\ ret' = columnQuote(arg)
    /\ UNCHANGED <<prefix, guid, instance, arg>>

NextQuote == CallTableQuote \/ CallColumnQuote

SpecQuote == InitQuote /\ [][NextQuote]_vars

\* a name made only of letters, digits and underscore (at least one)
IsPlainName(s) ==
    /\ Len(s) >= 1
    /\ \A i \in 1..Len(s) : At(s, i) \in WordChar

\* C7: tableQuote fails for every name that is not made only of letters,
\* digits and underscore, and columnQuote fails for every reference that is
\* not such a name optionally followed by one dot and another such name; an
\* accepted table name gives "<prefix><name>", an accepted dotted reference
\* gives "<prefix><first>"."<second>", and an accepted undotted column gives
\* "<name>" without the prefix.
C7_QuoterContract ==
    /\ op = "tableQuote" =>
          IF IsPlainName(arg)
          THEN ret = Ok("\"" \o prefix \o arg \o "\"")
          ELSE ~ret.ok
    /\ op = "columnQuote" =>
          IF IsPlainName(arg)
          THEN ret = Ok("\"" \o arg \o "\"")
          ELSE IF \E d \in 1..Len(arg) :
                     /\ At(arg, d) = "."
                     /\ IsPlainName(Sub(arg, 1, d - 1))
                     /\ IsPlainName(Sub(arg, d + 1, Len(arg)))
               THEN \E d \in 1..Len(arg) :
                     /\ At(arg, d) = "."
                     /\ ret = Ok("\"" \o prefix \o Sub(arg, 1, d - 1) \o "\".\""
                                 \o Sub(arg, d + 1, Len(arg)) \o "\"")
               ELSE ~ret.ok

C7_Witness ==
    /\ op = "columnQuote" /\ arg = "a.Z" /\ prefix = "p_"
    /\ ret = Ok("\"p_a\".\"Z\"")
----------------------------------------------------------------------------
(* The condition compiler applied to bounded condition trees *)

\* the sequences of at most n of the given entries, no key twice
RECURSIVE EntryLists(_, _)
EntryLists(entries, n) ==
    IF n = 0 THEN {<<>>}
    ELSE EntryLists(entries, n - 1)
         \cup UNION {{Append(t, e) : e \in {x \in entries :
                                              \A i \in 1..Len(t) : t[i].k # x.k}}
                     : t \in EntryLists(entries, n - 1)}

\* flat trees of comparisons
MaxCompare == 2
CompareColumns == {"age", "role"}
CompareSuffixes == {"", "[>]", "[>=]", "[<]", "[<=]"}
CompareValues == {Num("25"), Str("admin")}
CompareEntries ==
    {E(col \o suffix, v) : col \in CompareColumns, suffix \in CompareSuffixes,
                           v \in CompareValues}
CompareTrees == {Obj(t) : t \in EntryLists(CompareEntries, MaxCompare) \ {<<>>}}

\* trees of one or two leaves under every operator of the grammar
OperatorSuffixes == {"", "[!]", "[~]", "[!~]", "[<>]", "[><]", "[REGEXP]", "[>]"}
LeafValues ==
    {Num("7"), Str("bob"), Str("a%"), Bool(TRUE), Bool(FALSE),
     Arr(<<Num("1"), Str("b")>>), Arr(<<Bool(TRUE)>>),
     Arr(<<Str("x_y"), Str("c"), Num("3")>>)}
OperatorEntries == {E("tag" \o suffix, v) : suffix \in OperatorSuffixes, v \in LeafValues}
SecondEntries ==
    {E("n" \o suffix, v) : suffix \in {"", "[!]", "[~]", "[<>]"},
                           v \in {Num("7"), Bool(FALSE), Arr(<<Num("1"), Str("b")>>)}}
OperatorTrees ==
    {Obj(<<a>>) : a \in OperatorEntries}
    \cup {Obj(<<a, b>>) : a \in OperatorEntries, b \in SecondEntries}

\* trees nested under logical keys, to three levels
LogicalKeys == {"AND", "OR", "OR #1"}
InnerEntries == {E("age", Num("25")), E("role[>]", Str("admin"))}
InnerTrees == {Obj(t) : t \in EntryLists(InnerEntries, 2)}
GroupEntries == {E(k, t) : k \in LogicalKeys, t \in InnerTrees}
MiddleEntries == InnerEntries \cup GroupEntries
MiddleTrees ==
    {Obj(<<a>>) : a \in MiddleEntries}
    \cup {Obj(<<p[1], p[2]>>) : p \in {q \in GroupEntries \X MiddleEntries : q[1].k # q[2].k}}
    \cup {Obj(<<p[1], p[2]>>) : p \in InnerEntries \X GroupEntries}
OuterTrees ==
    {Obj(<<E(k, t)>> \o rest) :
        k \in {"AND", "OR"},
        t \in {m \in MiddleTrees : \E i \in 1..Len(m.kids) : m.kids[i].v.t = "object"},
        rest \in {<<>>} \cup {<<e>> : e \in InnerEntries}}

ConditionTrees == CompareTrees \cup OperatorTrees \cup MiddleTrees \cup OuterTrees

\* counter values a compilation can start from; arg holds the tree and the
\* counter value at the call
StartGuids == {0, 9}

InitWhere ==
    /\ prefix \in Prefixes
    /\ arg \in [data : ConditionTrees, guid : StartGuids]
    /\ guid = arg.guid
    /\ op = "none" /\ ret = Built(Ctx(0), <<>>)
    /\ Constructed /\ logging = FALSE

\* dataImplode(arg, map, ' AND') with a fresh map, as whereClause calls it
CallDataImplode ==
    /\ op = "none"
    /\ op' = "dataImplode" /\ ret' = dataImplode(arg.data, Ctx(guid), " AND")
    /\ guid' = ret'.c.guid
    /\ UNCHANGED <<prefix, instance, arg>>

\* whereClause(arg, map) with a fresh map
CallWhereClause ==
    /\ op = "none"
    /\ op' = "whereClause" /\ ret' = whereClause(arg.data, Ctx(guid))
    /\ guid' = ret'.c.guid
    /\ UNCHANGED <<prefix, instance, arg>>

NextWhere == CallDataImplode \/ CallWhereClause

SpecWhere == InitWhere /\ [][NextWhere]_vars

\* where the bracket of a key opens (0 when the key has none), the name before
\* it and the operator inside it
BracketOf(key) == First({i \in 1..Len(key) : At(key, i) = "["})
NameOf(key) == IF BracketOf(key) = 0 THEN key ELSE Sub(key, 1, BracketOf(key) - 1)
SuffixOf(key) == IF BracketOf(key) = 0 THEN "" ELSE Sub(key, BracketOf(key) + 1, Len(key) - 1)

\* the n-th parameter name generated from counter value g on
NameFrom(g, n) == ":medoo_" \o DecStr(g + n - 1) \o "_param"

\* "col" = :name or "col" op :name for a key and the name bound to it
FragmentOf(key, name) ==
    "\"" \o NameOf(key) \o "\" " \o (IF SuffixOf(key) = "" THEN "=" ELSE SuffixOf(key))
    \o " " \o name

\* C8: for a flat condition tree whose keys are bare column names or column
\* names with a suffix [>], [>=], [<] or [<=] and whose values are numbers or
\* strings, dataImplode gives one fragment per entry, "col" = :name or
\* "col" op :name with the operator of the key, in entry order and joined by
\* AND, and the parameter map binds the generated names to the entries' values
\* in that order.
C8_FlatComparisons ==
    (op = "dataImplode" /\ arg.data \in CompareTrees) =>
        /\ ret.c.ok
        /\ Text(ret.segs) =
              Join([i \in 1..Len(arg.data.kids) |->
                       FragmentOf(arg.data.kids[i].k, NameFrom(arg.guid, i))], " AND ")
        /\ ret.c.map =
              [i \in 1..Len(arg.data.kids) |->
                  E(NameFrom(arg.guid, i), arg.data.kids[i].v)]

C8_Witness ==
    /\ op = "dataImplode" /\ arg.guid = 9
    /\ arg.data = Obj(<<E("age[>]", Num("25")), E("role", Str("admin"))>>)
    /\ Text(ret.segs) = "\"age\" > :medoo_9_param AND \"role\" = :medoo_10_param"
    /\ ret.c.map = <<E(":medoo_9_param", Num("25")), E(":medoo_10_param", Str("admin"))>>

\* a key AND or OR, optionally followed by a '#' comment, and its keyword
IsGroupKey(key) == key \in {"AND", "OR"} \/ Sub(key, 1, 5) = "AND #" \/ Sub(key, 1, 4) = "OR #"
KeywordOf(key) == IF Sub(key, 1, 3) = "AND" THEN "AND" ELSE "OR"

\* the number of leaves of a tree of comparisons and groups
RECURSIVE LeafCount(_)
LeafCount(tree) ==
    IF tree.t # "object" THEN 1
    ELSE IF Len(tree.kids) = 0 THEN 0
    ELSE LeafCount(tree.kids[1].v) + LeafCount(Obj(Tail(tree.kids)))

\* the expression of a tree of comparisons and groups under a joiner, the
\* names being generated from counter value g on: a group is its tree under its
\* own keyword, in parentheses
RECURSIVE GroupText(_, _, _), GroupParts(_, _, _)
GroupParts(entries, i, g) ==
    IF i > Len(entries) THEN <<>>
    ELSE <<IF entries[i].v.t = "object" /\ IsGroupKey(entries[i].k)
           THEN "(" \o GroupText(entries[i].v.kids, g, KeywordOf(entries[i].k)) \o ")"
           ELSE FragmentOf(entries[i].k, NameFrom(g, 1))>>
         \o GroupParts(entries, i + 1, g + LeafCount(entries[i].v))
GroupText(entries, g, keyword) == Join(GroupParts(entries, 1, g), " " \o keyword \o " ")

HasGroup(tree) ==
    \E i \in 1..Len(tree.kids) :
        tree.kids[i].v.t = "object" /\ IsGroupKey(tree.kids[i].k)

\* C9: a logical key AND or OR, optionally followed by a '#' comment, compiles
\* its nested tree with that keyword as the joiner and wraps the result in
\* parentheses, and the group is joined with its siblings by the joiner of the
\* enclosing level, at every nesting depth.
C9_LogicalGroups ==
    (op = "dataImplode" /\ arg.data \in MiddleTrees \cup OuterTrees) =>
        /\ ret.c.ok
        /\ Text(ret.segs) = GroupText(arg.data.kids, arg.guid, "AND")

C9_Witness ==
    /\ op = "dataImplode" /\ arg.guid = 0
    /\ arg.data = Obj(<<E("OR", Obj(<<E("AND", Obj(<<E("age", Num("25")),
                                                     E("role[>]", Str("admin"))>>)),
                                      E("age", Num("25"))>>)),
                        E("role[>]", Str("admin"))>>)
    /\ Text(ret.segs) = "((\"age\" = :medoo_0_param AND \"role\" > :medoo_1_param)"
                        \o " OR \"age\" = :medoo_2_param) AND \"role\" > :medoo_3_param"

\* the scalar and list-element leaves of a tree, in entry order
RECURSIVE Leaves(_)
Leaves(tree) ==
    IF tree.t \notin {"object", "array"} THEN <<tree>>
    ELSE IF Len(tree.kids) = 0 THEN <<>>
    ELSE Leaves(tree.kids[1].v) \o Leaves([tree EXCEPT !.kids = Tail(tree.kids)])

IsScalar(v) == v.t \in {"number", "string", "boolean"}
IsList(v) == v.t = "array" /\ \A i \in 1..Len(v.kids) : IsScalar(v.kids[i].v)

\* a tree of the operator grammar: a scalar or a list under no operator, [!],
\* [~] and [!~], a scalar under a comparison and REGEXP, a list of two under a
\* range, a tree under a logical key
RECURSIVE InGrammar(_)
InGrammar(tree) ==
    /\ tree.t = "object"
    /\ \A i \in 1..Len(tree.kids) :
          \E key \in {tree.kids[i].k}, v \in {tree.kids[i].v} :
              IF v.t = "object" THEN IsGroupKey(key) /\ InGrammar(v)
              ELSE CASE SuffixOf(key) \in {"", "!", "~", "!~"} -> IsScalar(v) \/ IsList(v)
                     [] SuffixOf(key) \in {"<>", "><"} -> IsList(v) /\ Len(v.kids) = 2
                     [] OTHER -> IsScalar(v)

\* what the leaves of one entry are bound as
BoundAs(key, v) ==
    IF SuffixOf(key) \in {"~", "!~"}
    THEN [i \in 1..Len(Leaves(v)) |-> Str(LikeItem(ToStr(Leaves(v)[i])))]
    ELSE IF SuffixOf(key) \in {"", "!"} /\ v.t = "boolean"
    THEN <<Str(IF v.s = "true" THEN "1" ELSE "0")>>
    ELSE Leaves(v)

RECURSIVE BoundValues(_)
BoundValues(tree) ==
    IF Len(tree.kids) = 0 THEN <<>>
    ELSE (IF tree.kids[1].v.t = "object" THEN BoundValues(tree.kids[1].v)
          ELSE BoundAs(tree.kids[1].k, tree.kids[1].v))
         \o BoundValues(Obj(Tail(tree.kids)))

MapValues(map) == [i \in 1..Len(map) |-> map[i].v]

\* C10 as stated: for every condition tree with only concrete scalar leaves,
\* the parameter map has as many names as the tree has scalar and list-element
\* leaves, and its values are exactly those leaf values.
C10_ValuesAreLeaves ==
    (op = "dataImplode" /\ InGrammar(arg.data)) =>
        /\ Len(ret.c.map) = Len(Leaves(arg.data))
        /\ MapValues(ret.c.map) = Leaves(arg.data)

\* C10 amended: for every condition tree of the operator grammar with only
\* concrete scalar leaves, the parameter map has as many names as the tree has
\* scalar and list-element leaves, and its values are those leaf values in
\* entry order, except that a boolean scalar under a key with no operator or
\* with [!] is bound as '1' or '0', and every element of a pattern match is
\* bound as text, wrapped in %...% unless it holds a wildcard character.
C10_ValuesAreBoundLeaves ==
    (op = "dataImplode" /\ InGrammar(arg.data)) =>
        /\ ret.c.ok
        /\ Len(ret.c.map) = Len(Leaves(arg.data))
        /\ Len(ret.c.names) = Len(Leaves(arg.data))
        /\ MapValues(ret.c.map) = BoundValues(arg.data)

C10_Witness ==
    /\ op = "dataImplode"
    /\ arg.data = Obj(<<E("tag[~]", Arr(<<Str("x_y"), Str("c"), Num("3")>>)),
                        E("n", Bool(FALSE))>>)
    /\ InGrammar(arg.data)
    /\ MapValues(ret.c.map) = <<Str("x_y"), Str("%c%"), Str("%3%"), Str("0")>>
----------------------------------------------------------------------------
(* The verbs applied to bounded requests, each up to what exec passes to the
   driver *)

Tables == {"users", "bad name"}
Joins ==
    {Null,
     Obj(<<E("[>]posts", Obj(<<E("id", Str("user_id"))>>))>>),
     Obj(<<E("[>]posts", Str("uid\") OR (\"1"))>>)}
ColumnSpecs == {Str("*"), Arr(<<Str("id"), Str("name")>>), Arr(<<Str("bad col")>>)}
WhereSpecs ==
    {Null,
     Obj(<<E("id", Arr(<<Num("1"), Num("2")>>)), E("name[~]", Str("bob")),
           E("LIMIT", Num("5"))>>),
     Obj(<<E("age[<>]", Arr(<<Num("1"), Num("9")>>)),
           E("ORDER", Obj(<<E("role", Arr(<<Str("a'b"), Num("2")>>))>>)),
           E("LIMIT", Arr(<<Num("0"), Str("1; DROP TABLE users")>>))>>),
     Obj(<<E("age[>]", RawOf("(:b - :a)", <<E(":a", Num("1")), E(":b", Num("5"))>>))>>),
     RawOf("WHERE a = :v OR b = :v", <<E(":v", Num("1"))>>),
     Obj(<<E("id", Num("1")), E("bad col", Num("2"))>>)}
DataSpecs ==
    {Obj(<<E("name", Str("x")), E("ok", Bool(TRUE))>>),
     Obj(<<E("views[+]", Num("1")), E("bio", Obj(<<E("old", Str("new"))>>))>>)}

Requests ==
    [table : Tables, join : Joins, columns : ColumnSpecs, where : WhereSpecs,
     data : DataSpecs]

\* what exec passes to connection.execute for what a verb hands to it
Executable(q) ==
    IF q.called THEN Positional(q.c.map, 1, Text(q.segs), <<>>)
    ELSE [query |-> "", values |-> <<>>]

Handed(q, x) ==
    [c |-> q.c, segs |-> q.segs, called |-> q.called, final |-> x.query,
     values |-> x.values]

InitCompile ==
    /\ prefix \in Prefixes
    /\ guid \in StartGuids
    /\ arg \in Requests
    /\ op = "none" /\ ret = Handed(NoQuery(Ctx(guid)), Executable(NoQuery(Ctx(guid))))
    /\ (Constructed \/ Opened) /\ logging = FALSE

\* the verb whose statement is q
Compiled(verb, q) ==
    /\ op = "none"
    /\ op' = verb /\ ret' = Handed(q, Executable(q))
    /\ guid' = q.c.guid
    /\ UNCHANGED <<prefix, instance, arg>>

\* select(table, columns, where) and select(table, join, columns, where)
CallSelect ==
    Compiled("select",
             IF arg.join = Null
             THEN selectQuery(arg.table, arg.columns, arg.where, Null, Ctx(guid))
             ELSE selectQuery(arg.table, arg.join, arg.columns, arg.where, Ctx(guid)))

\* get(table, columns, where) and get(table, join, columns, where)
CallGet ==
    Compiled("get",
             IF arg.join = Null
             THEN getQuery(arg.table, arg.columns, arg.where, Null, Ctx(guid))
             ELSE getQuery(arg.table, arg.join, arg.columns, arg.where, Ctx(guid)))

\* has(table, where) and has(table, join, where)
CallHas ==
    Compiled("has",
             IF arg.join = Null THEN hasQuery(arg.table, arg.where, Null, Ctx(guid))
             ELSE hasQuery(arg.table, arg.join, arg.where, Ctx(guid)))

\* count(table, where) and count(table, join, column, where)
CallCount ==
    Compiled("count",
             IF arg.join = Null
             THEN aggregateQuery("count", arg.table, arg.where, Null, Null, Ctx(guid))
             ELSE aggregateQuery("count", arg.table, arg.join, arg.columns, arg.where,
                                 Ctx(guid)))

\* max(table, column, where) and max(table, join, column, where)
CallMax ==
    Compiled("max",
             IF arg.join = Null
             THEN aggregateQuery("max", arg.table, arg.columns, arg.where, Null, Ctx(guid))
             ELSE aggregateQuery("max", arg.table, arg.join, arg.columns, arg.where,
                                 Ctx(guid)))

CallInsert == Compiled("insert", insertQuery(arg.table, arg.data, Ctx(guid)))

CallUpdate == Compiled("update", updateQuery(arg.table, arg.data, arg.where, Ctx(guid)))

CallDelete == Compiled("delete", deleteQuery(arg.table, arg.where, Ctx(guid)))

CallReplace == Compiled("replace", replaceQuery(arg.table, arg.data, arg.where, Ctx(guid)))

NextCompile ==
    \/ CallSelect \/ CallGet \/ CallHas \/ CallCount \/ CallMax
    \/ CallInsert \/ CallUpdate \/ CallDelete \/ CallReplace

SpecCompile == InitCompile /\ [][NextCompile]_vars

\* C1: in every statement a verb hands to exec, every piece of the text is
\* text of the source, an identifier the quoter has validated, a generated
\* parameter name, a Raw fragment or a literal of an ORDER custom list: no
\* value of the caller (condition value, data value, LIMIT value) and no
\* unvalidated name of the caller is part of the text.
C1_NoValueInText ==
    (op # "none" /\ ret.called) =>
        \A i \in 1..Len(ret.segs) :
            ret.segs[i].k \in {"sql", "quoted", "param", "raw", "escaped", "listed"}

\* C3: for every statement and parameter map a verb hands to exec, every name
\* of the map stands in the statement, the names stand in the statement in
\* the order of the map (so the k-th '?' stands where the k-th name stood),
\* the k-th value passed is the value of the k-th name, and no name of the map
\* is left in the final query.
C3_OrderPreserving ==
    (op # "none" /\ ret.called) =>
        /\ ret.values = [j \in 1..Len(ret.c.map) |-> ret.c.map[j].v]
        /\ \A j \in 1..Len(ret.c.map) :
              /\ IndexOf(Text(ret.segs), ret.c.map[j].k) > 0
              /\ ~Includes(ret.final, ret.c.map[j].k)
        /\ \A j \in 1..(Len(ret.c.map) - 1) :
              IndexOf(Text(ret.segs), ret.c.map[j].k)
                 < IndexOf(Text(ret.segs), ret.c.map[j + 1].k)
----------------------------------------------------------------------------
(* One instance in use: verbs, debug(), action() and parallelSelect() called
   on it, its connection attempts and the driver's answers, interleaved as
   the event loop allows.  Every await of the source is the end of a step. *)

\* the calls the program makes on the instance, those of them that are calls
\* of action or parallelSelect, the connection attempts they and the
\* constructor start, the total counts the driver answers, the statements one
\* callback issues, the calls of debug()
MaxCalls == 2
MaxComposite == 1
MaxOpens == 2
MaxTotal == 3
MaxStatements == 1
MaxDebug == 2

NoOptions == [chunkSize |-> 0, maxParallel |-> 0]
Request(verb, table, columns, where, data, callback, options) ==
    [verb |-> verb, table |-> table, columns |-> columns, where |-> where,
     data |-> data, callback |-> callback, options |-> options]

\* select with an IN list, update whose last condition names a column the
\* quoter refuses
VerbCalls ==
    {Request("select", "users", Arr(<<Str("id")>>),
             Obj(<<E("id", Arr(<<Num("1"), Num("2")>>))>>), Null, "", NoOptions),
     Request("update", "users", Null,
             Obj(<<E("name[~]", Str("bob")), E("age[<>]", Arr(<<Num("1"), Num("9")>>)),
                   E("a.b.c", Num("1"))>>),
             Obj(<<E("name", Str("x"))>>), "", NoOptions)}

\* what a transaction callback calls
CallbackCalls ==
    {Request("delete", "users", Null, Obj(<<E("id", Num("1"))>>), Null, "", NoOptions)}

\* the argument of action: not a function, or a function that throws, returns
\* false or returns a value once its statements have settled
Callbacks == {"none", "throws", "false", "value"}

ParallelCalls ==
    {Request("parallelSelect", "users", columns, Obj(<<E("id", Num("1"))>>), Null, "",
             [chunkSize |-> 2, maxParallel |-> 1]) :
        columns \in {Arr(<<Str("id")>>), Arr(<<Str("a.b.c")>>)}}

\* the statement of a verb call: what the verb hands to exec
CompileOf(r, c) ==
    CASE r.verb = "select" -> selectQuery(r.table, r.columns, r.where, Null, c)
      [] r.verb = "count" -> aggregateQuery("count", r.table, r.where, Null, Null, c)
      [] r.verb = "update" -> updateQuery(r.table, r.data, r.where, c)
      [] OTHER -> deleteQuery(r.table, r.where, c)

\* the fields of the instance and the bookkeeping of the model, as one record
Machine ==
    [guid |-> guid, debugMode |-> debugMode, logs |-> logs, lastError |-> lastError,
     connection |-> connection, opens |-> opens, conn |-> conn, calls |-> calls,
     issued |-> issued, trace |-> trace]

Install(m) ==
    /\ guid' = m.guid /\ debugMode' = m.debugMode /\ logs' = m.logs
    /\ lastError' = m.lastError /\ connection' = m.connection /\ opens' = m.opens
    /\ conn' = m.conn /\ calls' = m.calls /\ issued' = m.issued /\ trace' = m.trace
    /\ UNCHANGED <<prefix, logging, op, arg, ret>>

\* a call on the instance:
\*   req  what was called, by the caller (0 the program, else the call whose
\*        callback or whose body made it)
\*   pc   where it stands; wait the connection attempt it awaits (0: none)
\*   err  the error it threw, or holds to rethrow; out what it returned
\*   rej  the transaction calls the driver rejected for it
Call(r, by, pc, wait, err, out) ==
    [req |-> r, by |-> by, pc |-> pc, wait |-> wait, err |-> err, out |-> out,
     rej |-> <<>>]

Event(e, id) == [e |-> e, id |-> id]

Settled(call) == call.pc \in {"done", "failed"}
ChildrenOf(i) == {j \in 1..Len(calls) : calls[j].by = i}

\* ensureConnection() called by call i: while this.connection is null it
\* starts an attempt of its own, whatever attempts are under way
Ensured(m, i) ==
    IF m.connection # 0 THEN m
    ELSE [m EXCEPT !.opens = Append(@, [by |-> i, pc |-> "connecting"])]

WaitOf(m) == IF m.connection # 0 THEN 0 ELSE Len(m.opens) + 1

DryRun_StaysOn(m) == m

\* exec in debug mode: this.debugMode = false; return false
DryRun(m) == [m EXCEPT !.debugMode = FALSE]

ErrorCleared_Kept(m) == m

\* exec on entry: this.lastError = null
ErrorCleared(m) == [m EXCEPT !.lastError = 0]

\* exec(query, map) called by call i, up to its first await; a verb whose exec
\* returned false fails on the rows it expects
Entered(m, i, r, by) ==
    IF m.debugMode
    THEN DryRun([ErrorCleared(m) EXCEPT
                    !.trace = Append(@, [e |-> "exec", id |-> i, dry |-> TRUE]),
                    !.calls = Append(@, Call(r, by, "failed", 0, "dry", ""))])
    ELSE Ensured([ErrorCleared(m) EXCEPT
                     !.trace = Append(@, [e |-> "exec", id |-> i, dry |-> FALSE]),
                     !.calls = Append(@, Call(r, by, "waiting", WaitOf(m), "", ""))],
                 i)

\* a verb called with the statement q it compiles
Started(m, i, r, by, q) ==
    IF ~q.c.ok
    THEN [m EXCEPT !.guid = q.c.guid, !.issued = @ \o q.c.names,
                   !.calls = Append(@, Call(r, by, "failed", 0, "compile", ""))]
    ELSE IF ~q.called
    THEN [m EXCEPT !.guid = q.c.guid, !.issued = @ \o q.c.names,
                   !.calls = Append(@, Call(r, by, "done", 0, "", "false"))]
    ELSE Entered([m EXCEPT !.guid = q.c.guid, !.issued = @ \o q.c.names], i, r, by)

\* verb r called by `by`: its compilation and its call of exec
Invoked(m, r, by) == Started(m, Len(m.calls) + 1, r, by, CompileOf(r, Ctx(m.guid)))

\* the verbs of requests called one after the other in one step
RECURSIVE InvokedAll(_, _, _)
InvokedAll(m, requests, by) ==
    IF Len(requests) = 0 THEN m
    ELSE InvokedAll(Invoked(m, requests[1], by), Tail(requests), by)

TopLevel == Cardinality({i \in 1..Len(calls) : calls[i].by = 0})
Composite ==
    Cardinality({i \in 1..Len(calls) : calls[i].req.verb \in {"action", "parallelSelect"}})

\* who may call a verb now: the program, or a callback that is running
Callers ==
    {0} \cup {i \in 1..Len(calls) :
                 /\ calls[i].req.verb = "action" /\ calls[i].pc = "callback"
                 /\ Cardinality(ChildrenOf(i)) < MaxStatements}

\* debug()
Debug ==
    /\ Cardinality({p \in 1..Len(trace) : trace[p].e = "debug"}) < MaxDebug
    /\ Install([Machine EXCEPT !.debugMode = TRUE,
                               !.trace = Append(@, [e |-> "debug", id |-> 0,
                                                    dry |-> FALSE])])

\* what the program calls one after the other in one step:
\*   a verb, by the program or by a running callback;
\*   parallelSelect(table, columns, where, options), which calls
\*   count(table, where) first
CallVerb(by, r) ==
    /\ by = 0 <=> r \notin CallbackCalls
    /\ by = 0 => TopLevel < MaxCalls
    /\ r.verb = "parallelSelect" => Composite < MaxComposite
    /\ IF r.verb = "parallelSelect"
       THEN Install(InvokedAll([Machine EXCEPT
                                   !.calls = Append(@, Call(r, 0, "counting", 0, "", ""))],
                               <<Request("count", r.table, Null, r.where, Null, "",
                                         NoOptions)>>,
                               Len(calls) + 1))
       ELSE Install(InvokedAll(Machine, <<r>>, by))
    /\ Len(opens') <= MaxOpens

\* what action does with the result of the callback
Settle_AlwaysCommit(result) == "commit"

Settle(result) == IF result = "value" THEN "commit" ELSE "rollback"

\* action(actions): false at once for what is not a function, else
\* ensureConnection()
CallAction(f) ==
    /\ TopLevel < MaxCalls /\ Composite < MaxComposite
    /\ \E r \in {Request("action", "", Null, Null, Null, f, NoOptions)} :
          IF f = "none"
          THEN Install([Machine EXCEPT !.calls = Append(@, Call(r, 0, "done", 0, "", "false"))])
          ELSE Install(Ensured([Machine EXCEPT
                                   !.calls = Append(@, Call(r, 0, "waiting", WaitOf(Machine),
                                                            "", ""))],
                               Len(calls) + 1))
    /\ Len(opens') <= MaxOpens

\* createConnection of attempt a resolves: this.connection is set, whatever it
\* held, and SET SQL_MODE is sent on it
Connected(a) ==
    /\ opens[a].pc = "connecting"
    /\ Install([Machine EXCEPT !.connection = a, !.opens[a].pc = "mode"])

ModeSet(a) ==
    /\ opens[a].pc = "mode"
    /\ Install([Machine EXCEPT !.opens[a].pc = "done"])

\* createConnection or SET SQL_MODE of attempt a rejects
ConnectFailed(a) ==
    /\ opens[a].pc \in {"connecting", "mode"}
    /\ Install([Machine EXCEPT !.opens[a].pc = "failed"])

Ready(i) ==
    /\ calls[i].pc = "waiting"
    /\ calls[i].wait # 0 => opens[calls[i].wait].pc = "done"

Logged_Always(kept, i) == Append(kept, i)

\* this.logs once exec has logged the statement of call i: pushed when the
\* logging option is on, else the only entry
Logged(kept, i) == IF logging THEN Append(kept, i) ELSE <<i>>

\* exec after ensureConnection: the statement is logged and passed to
\* connection.execute
Resume(i) ==
    /\ calls[i].req.verb # "action" /\ Ready(i)
    /\ Install([Machine EXCEPT !.logs = Logged(@, i),
                               !.conn = Append(@, Event("execute", i)),
                               !.calls[i].pc = "executing"])

\* the attempt call i awaits has failed: ensureConnection throws
ConnectionLost(i) ==
    /\ calls[i].pc = "waiting" /\ calls[i].wait # 0
    /\ opens[calls[i].wait].pc = "failed"
    /\ Install([Machine EXCEPT !.calls[i].pc = "failed", !.calls[i].err = "connect"])

\* the driver returns the rows of the statement of call i
Executed(i) ==
    /\ calls[i].pc = "executing"
    /\ Install([Machine EXCEPT !.calls[i].pc = "done", !.calls[i].out = "rows"])

\* the driver rejects the statement of call i
Rejected(i) ==
    /\ calls[i].pc = "executing"
    /\ Install([Machine EXCEPT !.lastError = i, !.calls[i].pc = "failed",
                               !.calls[i].err = "driver"])

\* action after ensureConnection: connection.beginTransaction()
Begins(i) ==
    /\ calls[i].req.verb = "action" /\ Ready(i)
    /\ Install([Machine EXCEPT !.conn = Append(@, Event("begin", i)),
                               !.calls[i].pc = "beginning"])

\* beginTransaction resolves: the callback is called
Begun(i) ==
    /\ calls[i].pc = "beginning"
    /\ Install([Machine EXCEPT !.calls[i].pc = "callback"])

BeginFailed(i) ==
    /\ calls[i].pc = "beginning"
    /\ Install([Machine EXCEPT !.calls[i].pc = "failed", !.calls[i].err = "begin",
                               !.calls[i].rej = Append(@, "begin")])

\* the callback ends, its statements settled: rollback() in the catch block
\* for an error, else rollback() or commit() by its result
CallbackEnds(i) ==
    /\ calls[i].pc = "callback"
    /\ \A j \in ChildrenOf(i) : Settled(calls[j])
    /\ \E result \in {calls[i].req.callback}, todo \in {Settle(calls[i].req.callback)} :
          Install([Machine EXCEPT
                      !.conn = Append(@, Event(IF result = "throws" THEN "rollback" ELSE todo, i)),
                      !.calls[i].pc = IF result = "throws" THEN "rollback" ELSE todo,
                      !.calls[i].err = IF result = "throws" THEN "callback" ELSE ""])

\* rollback() resolves: false is returned, or the error held is thrown
RolledBack(i) ==
    /\ calls[i].pc = "rollback"
    /\ IF calls[i].err = ""
       THEN Install([Machine EXCEPT !.calls[i].pc = "done", !.calls[i].out = "false"])
       ELSE Install([Machine EXCEPT !.calls[i].pc = "failed"])

\* rollback() rejects: in the try block its error is caught and rollback() is
\* called again, in the catch block its error is thrown
RollbackFailed(i) ==
    /\ calls[i].pc = "rollback"
    /\ IF calls[i].err = ""
       THEN Install([Machine EXCEPT !.conn = Append(@, Event("rollback", i)),
                                    !.calls[i].err = "rollback",
                                    !.calls[i].rej = Append(@, "rollback")])
       ELSE Install([Machine EXCEPT !.calls[i].pc = "failed", !.calls[i].err = "rollback",
                                    !.calls[i].rej = Append(@, "rollback")])

\* commit() resolves: the result of the callback is returned
Committed(i) ==
    /\ calls[i].pc = "commit"
    /\ Install([Machine EXCEPT !.calls[i].pc = "done", !.calls[i].out = "value"])

\* commit() rejects: its error is caught and rollback() is called
CommitFailed(i) ==
    /\ calls[i].pc = "commit"
    /\ Install([Machine EXCEPT !.conn = Append(@, Event("rollback", i)),
                               !.calls[i].pc = "rollback", !.calls[i].err = "commit",
                               !.calls[i].rej = Append(@, "commit")])

\* { ...where, LIMIT: [offset, chunkSize] }
ChunkWhere(where, offset, chunkSize) ==
    Obj(MapSet(IF where.t = "object" THEN where.kids ELSE <<>>, "LIMIT",
               Arr(<<Num(DecStr(offset)), Num(DecStr(chunkSize))>>)))

Min(a, b) == IF a <= b THEN a ELSE b

\* Math.min(Math.ceil(totalCount / chunkSize), maxParallel)
ActualParallel(totalCount, options) ==
    Min((totalCount + options.chunkSize - 1) \div options.chunkSize, options.maxParallel)

\* the selects of parallelSelect once count has returned totalCount: one with
\* the caller's where, or one for each of the first actualParallel chunks
SelectsOf(r, totalCount) ==
    IF totalCount <= r.options.chunkSize
    THEN <<Request("select", r.table, r.columns, r.where, Null, "", NoOptions)>>
    ELSE [n \in 1..ActualParallel(totalCount, r.options) |->
             Request("select", r.table, r.columns,
                     ChunkWhere(r.where, (n - 1) * r.options.chunkSize, r.options.chunkSize),
                     Null, "", NoOptions)]

\* parallelSelect after count has returned totalCount
Counted(p, totalCount) ==
    /\ calls[p].pc = "counting"
    /\ \A j \in ChildrenOf(p) : calls[j].pc = "done"
    /\ Install(InvokedAll([Machine EXCEPT !.calls[p].pc = "selecting"],
                          SelectsOf(calls[p].req, totalCount), p))

\* a verb awaited by parallelSelect has thrown: parallelSelect throws its error
ParallelFails(p) ==
    /\ calls[p].pc \in {"counting", "selecting"}
    /\ \E j \in ChildrenOf(p) :
          /\ calls[j].pc = "failed"
          /\ \A k \in ChildrenOf(p) : calls[k].pc = "failed" => j <= k
          /\ Install([Machine EXCEPT !.calls[p].pc = "failed",
                                     !.calls[p].err = calls[j].err])

\* all selects of parallelSelect have returned
ParallelReturns(p) ==
    /\ calls[p].pc = "selecting"
    /\ \A j \in ChildrenOf(p) : calls[j].pc = "done"
    /\ Install([Machine EXCEPT !.calls[p].pc = "done", !.calls[p].out = "rows"])

Init ==
    /\ prefix = "p_"
    /\ guid = 0
    /\ op = "none" /\ arg = "" /\ ret = Ok("")
    /\ Constructed

Next ==
    \/ Debug
    \/ \E by \in Callers, r \in VerbCalls \cup CallbackCalls \cup ParallelCalls :
          CallVerb(by, r)
    \/ \E f \in Callbacks : CallAction(f)
    \/ \E a \in 1..Len(opens) : Connected(a)
    \/ \E a \in 1..Len(opens) : ModeSet(a)
    \/ \E a \in 1..Len(opens) : ConnectFailed(a)
    \/ \E i \in 1..Len(calls) : Resume(i)
    \/ \E i \in 1..Len(calls) : ConnectionLost(i)
    \/ \E i \in 1..Len(calls) : Executed(i)
    \/ \E i \in 1..Len(calls) : Rejected(i)
    \/ \E i \in 1..Len(calls) : Begins(i)
    \/ \E i \in 1..Len(calls) : Begun(i)
    \/ \E i \in 1..Len(calls) : BeginFailed(i)
    \/ \E i \in 1..Len(calls) : CallbackEnds(i)
    \/ \E i \in 1..Len(calls) : RolledBack(i)
    \/ \E i \in 1..Len(calls) : RollbackFailed(i)
    \/ \E i \in 1..Len(calls) : Committed(i)
    \/ \E i \in 1..Len(calls) : CommitFailed(i)
    \/ \E p \in 1..Len(calls), totalCount \in 0..MaxTotal : Counted(p, totalCount)
    \/ \E p \in 1..Len(calls) : ParallelFails(p)
    \/ \E p \in 1..Len(calls) : ParallelReturns(p)

Spec == Init /\ [][Next]_vars

\* C2: on one instance, after any sequence of compilations, those of verbs
\* started concurrently and those that throw included, no two generated
\* parameter names are equal (the names of the elements of an IN list, of a
\* LIKE list and of the bounds of a BETWEEN among them), and the counter only
\* increases.
C2_NamesUnique ==
    /\ [](\A i, j \in 1..Len(issued) : issued[i] = issued[j] => i = j)
    /\ [][guid' >= guid]_vars

C2_Witness ==
    /\ Len(calls) = 2
    /\ calls[1].pc = "waiting" /\ calls[2].err = "compile"
    /\ issued = <<":medoo_0_param0_i", ":medoo_0_param1_i", ":medoo_1_param",
                  ":medoo_2_paramL0", ":medoo_3_parama", ":medoo_3_paramb">>
    /\ guid = 5

\* the call of the program that call i belongs to
RootOf(i) == IF calls[i].by = 0 THEN i ELSE calls[i].by

\* C4: when the compilation of a call of the program fails, no statement of
\* that call has been passed to the connection.
C4_NoPartialExecution ==
    \A i \in 1..Len(calls) :
        (calls[i].by = 0 /\ calls[i].pc = "failed" /\ calls[i].err = "compile") =>
            \A n \in 1..Len(conn) : conn[n].e = "execute" => RootOf(conn[n].id) # i

\* the transaction calls made for call i, in order
TxEvents(i) ==
    SelectSeq(conn, LAMBDA e : e.id = i /\ e.e \in {"begin", "commit", "rollback"})
TxOf(i) == [n \in 1..Len(TxEvents(i)) |-> TxEvents(i)[n].e]

\* the callback of call i has run to its end
Ended(i) ==
    /\ Settled(calls[i]) /\ calls[i].req.callback # "none"
    /\ calls[i].err \notin {"connect", "begin"}

\* the transaction ended as the result of the callback dictates
AsDictated(i) ==
    CASE calls[i].req.callback = "throws" ->
            /\ TxOf(i) = <<"begin", "rollback">>
            /\ calls[i].pc = "failed" /\ calls[i].err = "callback"
      [] calls[i].req.callback = "false" ->
            /\ TxOf(i) = <<"begin", "rollback">>
            /\ calls[i].pc = "done" /\ calls[i].out = "false"
      [] OTHER ->
            /\ TxOf(i) = <<"begin", "commit">>
            /\ calls[i].pc = "done" /\ calls[i].out = "value"

\* no transaction without a function, and the transaction begun before the
\* callback and its statements
BegunFirst(i) ==
    /\ calls[i].req.callback = "none" =>
          TxOf(i) = <<>> /\ calls[i].pc = "done" /\ calls[i].out = "false"
    /\ calls[i].pc = "callback" => TxOf(i) = <<"begin">>
    /\ \A j \in ChildrenOf(i), n \in 1..Len(conn) :
          (conn[n].e = "execute" /\ conn[n].id = j) =>
              \E b \in 1..(n - 1) : conn[b] = Event("begin", i)

C6_DryRunOnce ==
    /\ debugMode <=> (Len(trace) > 0 /\ trace[Len(trace)].e = "debug")
    /\ \A p \in 1..Len(trace) :
          trace[p].e = "exec" =>
              /\ trace[p].dry <=> (p > 1 /\ trace[p - 1].e = "debug")
              /\ trace[p].dry =>
                    /\ \A n \in 1..Len(conn) : conn[n] # Event("execute", trace[p].id)
                    /\ \A n \in 1..Len(logs) : logs[n] # trace[p].id
              /\ ~trace[p].dry => calls[trace[p].id].err # "dry"

C6_Witness ==
    /\ Len(trace) = 3
    /\ trace[1].e = "debug"
    /\ trace[2].e = "exec" /\ trace[2].dry /\ calls[trace[2].id].err = "dry"
    /\ trace[3].e = "exec" /\ ~trace[3].dry /\ calls[trace[3].id].pc = "done"
    /\ conn = <<Event("execute", trace[3].id)>> /\ logs = <<trace[3].id>>

\* log(): the statements of this.logs, in their order
log == logs

\* last(): the last entry of this.logs; it reads log[0] of undefined and
\* throws while the log is empty
last == IF Len(logs) = 0 THEN Thrown("TypeError") ELSE Ok(logs[Len(logs)])

\* error()
error == lastError

\* the calls whose statement exec has passed to connection.execute, in order
RECURSIVE ExecutedOf(_)
ExecutedOf(events) ==
    IF Len(events) = 0 THEN <<>>
    ELSE (IF events[1].e = "execute" THEN <<events[1].id>> ELSE <<>>)
         \o ExecutedOf(Tail(events))

LastOf(ids) == IF Len(ids) = 0 THEN <<>> ELSE <<ids[Len(ids)]>>

RejectedCalls ==
    {i \in 1..Len(calls) :
        /\ calls[i].req.verb \notin {"action", "parallelSelect"}
        /\ calls[i].pc = "failed" /\ calls[i].err = "driver"}

\* the original statement of C20: once the connection has rejected a
\* statement, error() returns that error, also while other statements start
\* or complete.
C20_ErrorRetained ==
    \A i \in RejectedCalls : RejectedCalls = {i} => error = i

\* a statement has entered exec in this step
EntersExec == Len(trace') > Len(trace) /\ trace'[Len(trace')].e = "exec"
\* the connection rejects the statement of call i in this step
RejectsNow(i) ==
    /\ i \in 1..Len(calls) /\ calls[i].pc = "executing"
    /\ calls'[i].pc = "failed"

\* C20: when the connection rejects a statement, its error is thrown to the
\* caller and error() returns it from then on until the next statement of
\* the instance enters exec, which resets it to null (a dry run too); a
\* statement that completes leaves it as it is. The rejection changes
\* nothing else of the instance, so later statements are executed as usual.
C20_ErrorUntilNextExec ==
    [][/\ \A i \in 1..Len(calls) :
             RejectsNow(i) =>
                 /\ error' = i /\ calls'[i].err = "driver"
                 /\ UNCHANGED <<connection, debugMode, logs, guid, conn, opens>>
       /\ EntersExec => error' = 0
       /\ error' # error =>
             \/ error' = 0 /\ EntersExec
             \/ RejectsNow(error')]_vars

\* a statement was rejected, a later one was executed and returned its rows,
\* and error() is null again
C20_Witness ==
    /\ error = 0
    /\ \E i, j \in 1..Len(calls) :
          /\ i < j /\ i \in RejectedCalls
          /\ calls[j].pc = "done" /\ calls[j].out = "rows"
          /\ calls[j].req.verb \notin {"action", "parallelSelect"}

\* the transaction of the begin at conn[b] is open at conn[n]: the driver has
\* begun it and neither commit nor rollback was called for it before conn[n]
OpenAt(b, n) ==
    /\ b < n /\ conn[b].e = "begin"
    /\ calls[conn[b].id].pc # "beginning"
    /\ \A x \in 1..Len(calls[conn[b].id].rej) : calls[conn[b].id].rej[x] # "begin"
    /\ \A m \in (b + 1)..(n - 1) :
          ~(conn[m].id = conn[b].id /\ conn[m].e \in {"commit", "rollback"})

\* C27: between the begin of a transaction of action and its commit or
\* rollback, every statement executed on the connection is a statement of
\* its callback: no statement issued outside the callback by another caller
\* of the instance is executed in between.
C27_OnlyCallbackStatements ==
    \A b, n \in 1..Len(conn) :
        (OpenAt(b, n) /\ conn[n].e = "execute") => calls[conn[n].id].by = conn[b].id

\* the attempts whose createConnection has resolved: the connections opened
OpenedConnections == {a \in 1..Len(opens) : opens[a].pc \in {"mode", "done"}}

\* C28: the instance opens at most one connection: calls of exec or
\* ensureConnection made before the constructor's attempt has completed,
\* alone or several at once, never open a second one, so this.connection is
\* the connection of the constructor's attempt or none.
C28_OneConnection ==
    /\ Cardinality(OpenedConnections) <= 1
    /\ connection \in {0, 1}

----------------------------------------------------------------------------
(* Result mapping: columnMap, dataMap, and what select and get make of the
   rows the driver returns.  An array that is given named properties
   (currentStack, result) is a value of kind "array" whose kids hold those
   properties in insertion order. *)

\* the number a decimal text denotes
RECURSIVE DecVal(_)
DecVal(s) ==
    IF Len(s) = 0 THEN 0
    ELSE DecVal(Sub(s, 1, Len(s) - 1)) * 10 + (IndexOf(Digit, At(s, Len(s))) - 1)

\* text without its trailing zeros
RECURSIVE TrimZeros(_)
TrimZeros(s) ==
    IF Len(s) > 0 /\ At(s, Len(s)) = "0" THEN TrimZeros(Sub(s, 1, Len(s) - 1)) ELSE s

Sign(text) == IF At(text, 1) = "-" THEN "-" ELSE ""

\* the number whose digits are the run of n digits at text[from]
IntOf(sign, text, from, n) ==
    IF n = 0 THEN Num("NaN")
    ELSE With(DecStr(DecVal(Sub(text, from, from + n - 1))), LAMBDA digits :
              Num(IF digits = "0" THEN "0" ELSE sign \o digits))

\* parseInt(item): the integer the text of item begins with, else NaN
ParseInt(item) ==
    With(ToStr(item), LAMBDA text :
         IntOf(Sign(text), text, Len(Sign(text)) + 1,
               RunLen(text, Len(Sign(text)) + 1, CharsOf(Digit))))

\* the number with the n digits at text[from] before the point and the
\* digits that follow a point after them
FloatOf(sign, text, from, n) ==
    With(IF At(text, from + n) = "."
         THEN TrimZeros(Sub(text, from + n + 1,
                            from + n + RunLen(text, from + n + 1, CharsOf(Digit))))
         ELSE "",
         LAMBDA fraction :
            IF n = 0 /\ (At(text, from) # "." \/ At(text, from + 1) \notin CharsOf(Digit))
            THEN Num("NaN")
            ELSE IF fraction = "" THEN IntOf(sign, IF n = 0 THEN "0" ELSE text,
                                            IF n = 0 THEN 1 ELSE from, IF n = 0 THEN 1 ELSE n)
            ELSE Num(sign \o DecStr(DecVal(Sub(text, from, from + n - 1))) \o "." \o fraction))

\* parseFloat(item)
ParseFloat(item) ==
    With(ToStr(item), LAMBDA text :
         FloatOf(Sign(text), text, Len(Sign(text)) + 1,
                 RunLen(text, Len(Sign(text)) + 1, CharsOf(Digit))))

\* the values whose JSON texts the rows of the model hold; JSON.parse of a
\* text is the value that JSON.stringify writes as that text, and a text that
\* none of them is written as is not JSON
JsonValues ==
    {Num("7"), Num("0"), Num("2"), Num("3"), Num("12"), Num("1.5"), Null,
     Obj(<<E("a", Num("1"))>>), Arr(<<Num("1")>>), Obj(<<>>)}

IsJson(text) == \E v \in JsonValues : Json(v) = text

ParsedOr_Undefined(item) ==
    IF IsJson(ToStr(item)) THEN CHOOSE v \in JsonValues : Json(v) = ToStr(item)
    ELSE Undefined

\* try { JSON.parse(item) } catch { item }
ParsedOr(item) ==
    IF IsJson(ToStr(item)) THEN CHOOSE v \in JsonValues : Json(v) = ToStr(item)
    ELSE item

\* the switch on map[1] in dataMap: the type is compared as it was written
Coerced(type, item) ==
    CASE type = "Number" -> ParseFloat(item)
      [] type = "Int" -> ParseInt(item)
      [] type = "Bool" -> Bool(Truthy(item))
      [] type \in {"Object", "JSON"} -> ParsedOr(item)
      [] OTHER -> item

\* ([a-zA-Z0-9_]+\.)?(?<column>[a-zA-Z0-9_]+) at the leftmost word run: the
\* run after the dot when a dot and a word character follow the first run
MapColumnRun(value, run) ==
    IF /\ run.found
       /\ At(value, run.from + Len(run.text)) = "."
       /\ At(value, run.from + Len(run.text) + 1) \in WordChar
    THEN RunAt(value, run.from + Len(run.text) + 1, WordChar)
    ELSE run

\* value.match(...) in columnMap for an element: [found, column, alias, type]
MapColumnMatch(value) == ColumnRun(value, MapColumnRun(value, FirstRun(value, WordChar)))

\* key.match(...) in columnMap for a key that names a Raw: no alias, and the
\* types String, Bool, Int and Number only
MapRawTypes == {"STRING", "BOOL", "INT", "NUMBER"}
MapRawRun(key, run) ==
    [found |-> run.found, column |-> run.text, alias |-> "",
     type |-> OperatorAt(key, run.from + Len(run.text)
                                + RunLen(key, run.from + Len(run.text), SpaceChar),
                         MapRawTypes)]
MapRawMatch(key) == MapRawRun(key, MapColumnRun(key, FirstRun(key, WordChar)))

\* the column map: [ok, map], ok FALSE when columnMap has thrown
NoColumns == [ok |-> TRUE, map |-> <<>>]
MapFails == [ok |-> FALSE, map |-> <<>>]

\* stack[name] = [columnKey, type] for a match
Mapped(stack, name, match) ==
    IF ~match.found THEN MapFails
    ELSE [ok |-> TRUE,
          map |-> MapSet(stack.map, name,
                         <<IF match.alias # "" THEN match.alias ELSE match.column,
                           IF match.type # "" THEN match.type ELSE "String">>)]

RECURSIVE columnMap(_, _, _), columnMapFrom(_, _, _, _)

\* a key that holds an array: stack[key] = [key, 'String'] for the only key of
\* the root, then the array itself
columnMapNested(es, i, stack, root) ==
    columnMap(es[i].v,
              IF root /\ Len(es) = 1
              THEN [stack EXCEPT !.map = MapSet(@, es[i].k, <<es[i].k, "String">>)]
              ELSE stack,
              FALSE)

columnMapFrom(es, i, stack, root) ==
    IF ~stack.ok \/ i > Len(es) THEN stack
    ELSE IF IsIntKey(es[i].k)
    THEN IF es[i].v.t # "string" THEN MapFails
         ELSE columnMapFrom(es, i + 1, Mapped(stack, es[i].v.s, MapColumnMatch(es[i].v.s)),
                            root)
    ELSE IF isRaw(es[i].v)
    THEN columnMapFrom(es, i + 1, Mapped(stack, es[i].k, MapRawMatch(es[i].k)), root)
    ELSE IF IsArray(es[i].v)
    THEN columnMapFrom(es, i + 1, columnMapNested(es, i, stack, root), root)
    ELSE columnMapFrom(es, i + 1, stack, root)

\* columnMap(columns, stack, root)
columnMap(columns, stack, root) ==
    IF columns = Str("*") \/ ~Truthy(columns) THEN stack
    ELSE IF TypeOf(columns) # "object" \/ IsArray(columns) THEN stack
    ELSE columnMapFrom(Entries(columns), 1, stack, root)

\* columns === '*' || Array.isArray(columns) || typeof columns !== 'object' ||
\* columns === null
IsPlain(columns) ==
    columns = Str("*") \/ IsArray(columns) \/ TypeOf(columns) # "object" \/ columns = Null

\* an array with the properties stack
Stack(stack) == [t |-> "array", s |-> "", kids |-> stack]

\* columnMap[name]: <<>> for undefined
MapOf(map, name) ==
    IF HasKey(map, name) THEN (CHOOSE e \in {map[i] : i \in 1..Len(map)} : e.k = name).v
    ELSE <<>>

RECURSIVE dataMapInto(_, _, _), dataMapFrom(_, _, _, _, _)

\* one entry of columns that names a column: stack[columnKey] = the item of
\* the row, coerced to the type of the map
dataMapItem(data, raw, map, stack) ==
    IF map = <<>> THEN stack
    ELSE IF raw /\ map[2] \in {"Object", "JSON"} THEN stack
    ELSE IF Prop(data.kids, map[1]) = Null THEN MapSet(stack, map[1], Null)
    ELSE MapSet(stack, map[1], Coerced(map[2], Prop(data.kids, map[1])))

dataMapFrom(data, es, i, map, stack) ==
    IF i > Len(es) THEN stack
    ELSE IF IsIntKey(es[i].k) \/ isRaw(es[i].v)
    THEN dataMapFrom(data, es, i + 1, map,
                     dataMapItem(data, isRaw(es[i].v),
                                 MapOf(map, IF isRaw(es[i].v) THEN es[i].k
                                            ELSE ToStr(es[i].v)),
                                 stack))
    ELSE dataMapFrom(data, es, i + 1, map,
                     MapSet(stack, es[i].k, Stack(dataMapInto(data, es[i].v, map))))

\* dataMap(data, columns, columnMap, [], false, result): the properties the
\* empty stack is given
dataMapInto(data, columns, map) ==
    IF IsPlain(columns) THEN Assign(<<>>, Entries(data))
    ELSE dataMapFrom(data, Entries(columns), 1, map, <<>>)

\* result.length and result.push(value) of an array kept as its properties
ArrayLength(result) ==
    With({DecVal(result[i].k) + 1 : i \in {j \in 1..Len(result) : IsIntKey(result[j].k)}},
         LAMBDA ends : IF ends = {} THEN 0 ELSE CHOOSE n \in ends : \A m \in ends : m <= n)
Push(result, value) == Append(result, E(DecStr(ArrayLength(result)), value))

\* indexKey.replace(/^[a-zA-Z0-9_]+\./i, '')
DataKey(indexKey) ==
    IF RunLen(indexKey, 1, WordChar) > 0 /\ At(indexKey, RunLen(indexKey, 1, WordChar) + 1) = "."
    THEN Sub(indexKey, RunLen(indexKey, 1, WordChar) + 2, Len(indexKey))
    ELSE indexKey

\* dataMap(data, columns, columnMap, currentStack, true, result): result after
dataMap(data, columns, map, result) ==
    IF IsPlain(columns) THEN Push(result, Stack(dataMapInto(data, columns, map)))
    ELSE IF Len(Entries(columns)) = 1 /\ IsArray(Entries(columns)[1].v)
    THEN MapSet(result, ToStr(Prop(data.kids, DataKey(Entries(columns)[1].k))),
                Stack(dataMapInto(data, Entries(columns)[1].v, map)))
    ELSE Push(result, Stack(dataMapInto(data, columns, map)))

RECURSIVE dataMapAll(_, _, _, _, _)
dataMapAll(rows, i, columns, map, result) ==
    IF i > Len(rows) THEN result
    ELSE dataMapAll(rows, i + 1, columns, map, dataMap(rows[i], columns, map, result))

\* what a verb returns: [ok, value], ok FALSE when it has thrown
Returned(value) == [ok |-> TRUE, value |-> value]
Throws == [ok |-> FALSE, value |-> Undefined]

\* the map select and get build: only for a structured column selection
BuiltMap(columns) ==
    IF Truthy(columns) /\ columns # Str("*") /\ TypeOf(columns) = "object"
    THEN columnMap(columns, NoColumns, TRUE)
    ELSE NoColumns

\* isSingle: typeof column === 'string' && column !== '*'
IsSingle(column) == column.t = "string" /\ column # Str("*")

\* singleResult: item[resultKey] of every element of result
Singles(result, resultKey) ==
    IF \E n \in 0..(ArrayLength(result) - 1) : ~HasKey(result, DecStr(n)) THEN Throws
    ELSE Returned(Arr([n \in 1..ArrayLength(result) |->
                          Prop(Prop(result, DecStr(n - 1)).kids, resultKey)]))

\* select after exec has returned rows
selectMapped(column, columns, rows, cm) ==
    IF ~cm.ok THEN Throws
    ELSE IF IsSingle(column) /\ HasKey(cm.map, column.s)
    THEN Singles(dataMapAll(rows, 1, columns, cm.map, <<>>), MapOf(cm.map, column.s)[1])
    ELSE Returned(Stack(dataMapAll(rows, 1, columns, cm.map, <<>>)))

selectResult(join, columns, where, rows) ==
    IF columns = Str("*") \/ (where = Null /\ join = Str("*")) THEN Returned(Arr(rows))
    ELSE selectMapped(IF where = Null THEN join ELSE columns, columns, rows,
                      BuiltMap(columns))

\* get after exec has returned rows, its LIMIT deleted from the argument that
\* holds the where
getFirst(column, data, cm, result) ==
    IF ~cm.ok THEN Throws
    ELSE IF IsSingle(column) /\ HasKey(cm.map, column.s)
    THEN Returned(IF HasKey(result, "0")
                  THEN Prop(Prop(result, "0").kids, MapOf(cm.map, column.s)[1])
                  ELSE Null)
    ELSE Returned(IF HasKey(result, "0") THEN Prop(result, "0") ELSE data)

getMapped(column, columns, data, cm) ==
    getFirst(column, data, cm,
             IF cm.ok /\ Truthy(columns) /\ columns # Str("*") /\ TypeOf(columns) = "object"
             THEN dataMap(data, columns, cm.map, <<>>)
             ELSE <<>>)

\* columns after delete columns.LIMIT
getColumns(columns, where) ==
    IF where = Null /\ Truthy(columns) THEN WithoutLimit(columns) ELSE columns

getResult(join, columns, where, rows) ==
    IF Len(rows) = 0 THEN Returned(Null)
    ELSE IF (IF where = Null THEN join ELSE columns) = Str("*")
            \/ (where = Null /\ join = Str("*"))
    THEN Returned(rows[1])
    ELSE getMapped(IF where = Null THEN join ELSE columns, getColumns(columns, where),
                   rows[1], BuiltMap(getColumns(columns, where)))

----------------------------------------------------------------------------
(* select and get applied to the rows the driver returns *)

\* the rows a statement returns
MaxRows == 2

Row(id, settings, flag, score, name, meta, post) ==
    Obj(<<E("id", id), E("settings", settings), E("flag", flag), E("score", score),
          E("name", name), E("email", Str("a@x")), E("meta", meta), E("post", post)>>)

RowSet ==
    {Row(Str("7"), Str("{bad"), Str("0"), Str("1.50"), Str("ann"), Str("{\"a\":1}"), Str("3")),
     Row(Str("x"), Str("[1]"), Str(""), Str("2"), Null, Str("nope"), Str("12")),
     Row(Num("0"), Null, Num("1"), Str("-.5x"), Str("bob"), Obj(<<E("a", Num("1"))>>),
         Str("007"))}

RowLists == UNION {[1..n -> RowSet] : n \in 0..MaxRows}

TypedList ==
    <<Str("id[Int]"), Str("settings[JSON]"), Str("flag[Bool]"), Str("score[Number]"),
      Str("name[String]"), Str("meta[Object]"), Str("p.pid(post)[int]")>>

PostsJoin == Obj(<<E("[>]posts(p)", Str("uid"))>>)

\* the arguments of select and get as the caller passes them, null for an
\* argument left out:
\*   the flat list with a where, without and with a join;
\*   the same columns under integer keys, with a join;
\*   one column name with a where, without and with a join;
\*   '*'; one column name and a where with one key that holds a list;
\*   a key that scopes a list; a typed key that names a Raw
MapRequests ==
    {[join |-> Arr(TypedList), columns |-> Obj(<<E("LIMIT", Num("2"))>>), where |-> Null],
     [join |-> PostsJoin, columns |-> Arr(TypedList), where |-> Obj(<<E("id", Num("1"))>>)],
     [join |-> PostsJoin, columns |-> Obj(Arr(TypedList).kids),
      where |-> Obj(<<E("id", Num("1"))>>)],
     [join |-> Str("email"), columns |-> Obj(<<E("name", Str("ann"))>>), where |-> Null],
     [join |-> PostsJoin, columns |-> Str("email"), where |-> Obj(<<E("name", Str("ann"))>>)],
     [join |-> Str("*"), columns |-> Obj(<<E("id", Num("1"))>>), where |-> Null],
     [join |-> Str("email"),
      columns |-> Obj(<<E("id", Arr(<<Num("0"), Num("7")>>))>>), where |-> Null],
     [join |-> PostsJoin, columns |-> Obj(<<E("id", Arr(<<Str("name"), Str("id[Int]")>>))>>),
      where |-> Obj(<<E("id", Num("1"))>>)],
     [join |-> PostsJoin,
      columns |-> Obj(<<E("0", Str("id[Number]")), E("n[Int]", RawOf("COUNT(*)", <<>>))>>),
      where |-> Obj(<<E("id", Num("1"))>>)]}

InitMap ==
    /\ prefix = ""
    /\ guid = 0
    /\ arg \in [request : MapRequests, rows : RowLists]
    /\ op = "none" /\ ret = Returned(Null)
    /\ Opened /\ logging = FALSE

\* select(table, join, columns, where) once the driver has returned rows
ReturnSelect ==
    /\ op = "none"
    /\ op' = "select"
    /\ ret' = selectResult(arg.request.join, arg.request.columns, arg.request.where, arg.rows)
    /\ UNCHANGED <<prefix, guid, instance, arg>>

\* get(table, join, columns, where) once the driver has returned rows
ReturnGet ==
    /\ op = "none"
    /\ op' = "get"
    /\ ret' = getResult(arg.request.join, arg.request.columns, arg.request.where, arg.rows)
    /\ UNCHANGED <<prefix, guid, instance, arg>>

NextMap == ReturnSelect \/ ReturnGet

SpecMap == InitMap /\ [][NextMap]_vars

\* the column selection of a request as the caller wrote it, the strings of it
\* that declare a type as name[Type], and the row and field select returned
\* for the r-th source row
SelectionOf(request) == IF request.where = Null THEN request.join ELSE request.columns
Declared(request) ==
    {e.v.s : e \in {x \in {SelectionOf(request).kids[i] :
                                i \in 1..Len(SelectionOf(request).kids)} :
                        /\ x.v.t = "string" /\ BracketOf(x.v.s) > 1
                        /\ NameOf(x.v.s) = Sub(x.v.s, 1, RunLen(x.v.s, 1, WordChar))}}
ReturnedRow(r) ==
    IF ret.value.t = "array" /\ r <= Len(ret.value.kids) THEN ret.value.kids[r].v
    ELSE Undefined
Field(r, name) == Prop(ReturnedRow(r).kids, name)
Source(r, name) == Prop(arg.rows[r].kids, name)

\* a value of the declared type
IsOfType(type, value, source) ==
    CASE type = "Int" -> value.t = "number" /\ ~Includes(value.s, ".")
      [] type = "Number" -> value.t = "number"
      [] type = "Bool" -> value.t = "boolean"
      [] type \in {"JSON", "Object"} ->
            IsJson(ToStr(source)) => \E v \in JsonValues : Json(v) = ToStr(source) /\ value = v
      [] OTHER -> value = source

\* C11: for every column declared with a [Type] suffix in the column list
\* given to select, the flat list included, each returned row holds that
\* field coerced to the declared type: a source value "7" under id[Int] is
\* returned as the integer 7.
C11_TypedFields ==
    (op = "select" /\ SelectionOf(arg.request).t \in {"array", "object"}) =>
        /\ ret.ok
        /\ \A r \in 1..Len(arg.rows), e \in Declared(arg.request) :
              /\ Source(r, NameOf(e)) # Null =>
                    IsOfType(SuffixOf(e), Field(r, NameOf(e)), Source(r, NameOf(e)))
              /\ (SuffixOf(e) = "Int" /\ Source(r, NameOf(e)) = Str("7")) =>
                    Field(r, NameOf(e)) = Num("7")

\* the column selection is an object that lists typed columns under integer
\* keys, the form columnMap reads types from
IsKeyedList(columns) ==
    /\ columns.t = "object" /\ Len(columns.kids) > 1
    /\ \A i \in 1..Len(columns.kids) :
          IsIntKey(columns.kids[i].k) /\ columns.kids[i].v.t = "string"

\* C12: result mapping never fails on a malformed JSON payload: select and
\* get return for every column selection and every list of rows, and where a
\* field is mapped by its declared type JSON or Object and its source value
\* is not JSON, the mapped field is the source value unchanged, the other
\* declared fields of the row are coerced and every row is mapped.
C12_MalformedJsonKept ==
    (op \in {"select", "get"}) =>
        /\ ret.ok
        /\ (op = "select" /\ IsKeyedList(arg.request.columns)) =>
              /\ Len(ret.value.kids) = Len(arg.rows)
              /\ \A r \in 1..Len(arg.rows), e \in Declared(arg.request) :
                    IF SuffixOf(e) \in {"JSON", "Object"} /\ ~IsJson(ToStr(Source(r, NameOf(e))))
                    THEN Field(r, NameOf(e)) = Source(r, NameOf(e))
                    ELSE Source(r, NameOf(e)) # Null =>
                            IsOfType(SuffixOf(e), Field(r, NameOf(e)), Source(r, NameOf(e)))
        /\ (op = "get" /\ IsKeyedList(arg.request.columns) /\ Len(arg.rows) > 0) =>
              \A e \in Declared(arg.request) :
                  (SuffixOf(e) \in {"JSON", "Object"} /\ ~IsJson(ToStr(Source(1, NameOf(e))))) =>
                      Prop(ret.value.kids, NameOf(e)) = Source(1, NameOf(e))

C12_Witness ==
    /\ op = "select" /\ IsKeyedList(arg.request.columns) /\ Len(arg.rows) = 2
    /\ Source(1, "settings") = Str("{bad") /\ Field(1, "settings") = Str("{bad")
    /\ Field(1, "id") = Num("7") /\ Field(1, "meta") = Obj(<<E("a", Num("1"))>>)
    /\ Source(2, "meta") = Str("nope") /\ Field(2, "meta") = Str("nope")
    /\ Field(2, "settings") = Arr(<<Num("1")>>)

\* C16: get with a single column name returns the value of that column in
\* the first row, not the row and not a structure keyed by the where keys,
\* and null when there is no row.
C16_SingleValue ==
    (op = "get" /\ SelectionOf(arg.request) = Str("email")) =>
        /\ ret.ok
        /\ ret.value = IF Len(arg.rows) = 0 THEN Null ELSE Source(1, "email")

\* the where objects of the requests made without a join for a selection
WheresOf(selection) ==
    {request.columns : request \in {x \in MapRequests : x.where = Null /\ x.join = selection}}

\* the names a selection of plain columns names: of a name, or of a list
NamedBy(selection) ==
    IF selection.t = "string" THEN {selection.s}
    ELSE {NameOf(selection.kids[i].v.s) : i \in 1..Len(selection.kids)}

KeysOf(value) == {value.kids[i].k : i \in 1..Len(value.kids)}

\* C21: select(table, columns, where) without a join returns a result that
\* depends only on the fetched rows and on columns: it is the result of
\* every call that fetches the same rows with the same columns and another
\* where object, and each returned row holds the fields columns names and no
\* field the fetched row does not have.
C21_WhereIndependent ==
    (op = "select" /\ arg.request.where = Null) =>
        /\ ret.ok
        /\ \A where \in WheresOf(arg.request.join) :
              ret = selectResult(arg.request.join, where, Null, arg.rows)
        /\ Len(ret.value.kids) = Len(arg.rows)
        /\ \A r \in 1..Len(arg.rows) :
              /\ KeysOf(ReturnedRow(r)) \subseteq KeysOf(arg.rows[r])
              /\ arg.request.join # Str("*") =>
                    \A name \in NamedBy(arg.request.join) \cap KeysOf(arg.rows[r]) :
                        name \in KeysOf(ReturnedRow(r))

----------------------------------------------------------------------------
(* The statements of select and get: wildcard, LIMIT, column list, join *)

\* a string of the column selection holds '*'
RECURSIVE HasStar(_)
HasStar(columns) ==
    \/ columns.t = "string" /\ Includes(columns.s, "*")
    \/ /\ columns.t \in {"array", "object"}
       /\ \E i \in 1..Len(columns.kids) : HasStar(columns.kids[i].v)

\* C13: when the query has a join, a column selection that is '*' or that
\* holds a string with '*' makes the compilation of select and get fail, and
\* no statement is handed to exec.
C13_NoWildcardUnderJoin ==
    (op \in {"select", "get"} /\ IsJoin(arg.join) /\ HasStar(arg.columns)) => ~ret.called

\* the text of a statement that is not the text of a Raw fragment, a quoted
\* name or a parameter name
OwnText(segs) ==
    Text(SelectSeq(segs, LAMBDA p : p.k \notin {"raw", "quoted", "param", "escaped"}))
Occurrences(s, pat) ==
    Cardinality({i \in 1..(Len(s) - Len(pat) + 1) : SubSeq(s, i, i + Len(pat) - 1) = pat})
EndsWith(s, suffix) ==
    Len(s) >= Len(suffix) /\ SubSeq(s, Len(s) - Len(suffix) + 1, Len(s)) = suffix

\* C15: every statement get hands to exec holds exactly one LIMIT clause, the
\* LIMIT 1 at its end, whatever LIMIT the where of the caller held, with and
\* without a join (the text of a Raw fragment apart).
C15_GetLimitOne ==
    (op = "get" /\ ret.called) =>
        /\ Occurrences(OwnText(ret.segs), " LIMIT ") = 1
        /\ ~Includes(OwnText(ret.segs), " OFFSET ")
        /\ EndsWith(Text(ret.segs), " LIMIT 1")

C15_Witness ==
    /\ op = "get" /\ ret.called /\ IsJoin(arg.join)
    /\ Prop(Entries(arg.where), "LIMIT") = Arr(<<Num("0"), Str("1; DROP TABLE users")>>)
    /\ Includes(Text(ret.segs), " JOIN ") /\ EndsWith(Text(ret.segs), ",2) LIMIT 1")

----------------------------------------------------------------------------
(* whereClause and select applied to where objects that hold a LIMIT *)

\* the numbers of a LIMIT
MaxLimit == 3

LimitValues ==
    {Num(DecStr(n)) : n \in 0..MaxLimit}
        \cup {Arr(<<Num(DecStr(offset)), Num(DecStr(count))>>) :
                 offset \in 0..MaxLimit, count \in 0..MaxLimit}

\* the entries a LIMIT follows: none, a condition, an ORDER, a GROUP with
\* its HAVING, all of them
BeforeLimit ==
    {<<>>,
     <<E("id[>]", Num("1"))>>,
     <<E("ORDER", Obj(<<E("id", Str("DESC"))>>))>>,
     <<E("GROUP", Str("role")), E("HAVING", Obj(<<E("n[>]", Num("5"))>>))>>,
     <<E("id[>]", Num("1")), E("GROUP", Str("role")),
       E("HAVING", Obj(<<E("n[>]", Num("5"))>>)), E("ORDER", Str("id"))>>}

InitLimit ==
    /\ prefix = ""
    /\ arg \in {[data |-> Obj(Append(before, E("LIMIT", limit))), guid |-> 0] :
                    before \in BeforeLimit, limit \in LimitValues}
    /\ guid = arg.guid
    /\ op = "none" /\ ret = Built(Ctx(0), <<>>)
    /\ Opened /\ logging = FALSE

\* select(table, '*', where)
CallSelectWhere ==
    /\ op = "none"
    /\ op' = "select"
    /\ \E q \in {selectQuery("users", Str("*"), arg.data, Null, Ctx(guid))} :
          ret' = Built(q.c, q.segs) /\ guid' = q.c.guid
    /\ UNCHANGED <<prefix, instance, arg>>

NextLimit == CallWhereClause \/ CallSelectWhere

SpecLimit == InitLimit /\ [][NextLimit]_vars

\* the LIMIT clause the claim gives for a LIMIT value
LimitText(limit) ==
    IF limit.t = "number" THEN " LIMIT " \o limit.s
    ELSE " LIMIT " \o Elem(limit, 1).s \o " OFFSET " \o Elem(limit, 0).s

\* C14: for every integer n, LIMIT: n assembles to 'LIMIT n', and for every
\* pair of integers, LIMIT: [offset, count] assembles to
\* 'LIMIT count OFFSET offset'; the LIMIT clause is the last clause of the
\* where clause and of the statement of select.
C14_LimitLast ==
    (op \in {"whereClause", "select"}) =>
        /\ ret.c.ok
        /\ EndsWith(Text(ret.segs), LimitText(Prop(arg.data.kids, "LIMIT")))
        /\ Occurrences(Text(ret.segs), " LIMIT ") = 1

----------------------------------------------------------------------------
(* select, get, has and count applied to join specifications and to column
   lists that hold Raw fragments *)

\* the keys of a join specification
MaxJoins == 2

BaseTables == {"users", "users(u)"}
JoinedTables == <<"posts", "tags(t)">>
JoinRelations ==
    {Obj(<<E("id", Str("user_id"))>>),
     Obj(<<E("users.id", Str("user_id"))>>),
     Obj(<<E("users.id", Str("user_id")), E("org", Str("org_id"))>>),
     Str("uid")}

\* a join specification of n keys: the n-th key joins the n-th table
JoinSpecs ==
    {Obj([i \in 1..n |-> E("[" \o tags[i] \o "]" \o JoinedTables[i], relations[i])]) :
        n \in 1..MaxJoins, tags \in [1..MaxJoins -> JoinTags],
        relations \in [1..MaxJoins -> JoinRelations]}

ColumnLists ==
    {Arr(<<Str("name"), RawOf("COUNT(*) OVER() as total", <<>>),
           RawOf("UPPER(email) as upper_email", <<>>)>>),
     Arr(<<RawOf("NOW() as t", <<>>), Str("id")>>),
     Arr(<<Str("id"), Str("name")>>)}

JoinRequests ==
    [table : BaseTables, join : JoinSpecs \cup {Null}, columns : ColumnLists,
     where : {Obj(<<E("id", Num("1"))>>)}]

InitJoin ==
    /\ prefix = ""
    /\ guid = 0
    /\ arg \in JoinRequests
    /\ op = "none" /\ ret = Handed(NoQuery(Ctx(guid)), Executable(NoQuery(Ctx(guid))))
    /\ Opened /\ logging = FALSE

NextJoin == CallSelect \/ CallGet \/ CallHas \/ CallCount

SpecJoin == InitJoin /\ [][NextJoin]_vars

\* the select list the claim gives for a column list of plain names and Raw
\* fragments
SelectList(columns) ==
    Join([i \in 1..Len(columns.kids) |->
            IF isRaw(columns.kids[i].v) THEN columns.kids[i].v.s
            ELSE "\"" \o columns.kids[i].v.s \o "\""], ",")

\* C17: every Raw fragment given as an element of a column list stands in
\* the SELECT list of the statement of select and get, at its position among
\* the other columns, and no element of the list is dropped.
C17_RawInSelectList ==
    (op \in {"select", "get"} /\ ret.c.ok) =>
        /\ ret.called
        /\ Includes(Text(ret.segs), "SELECT " \o SelectList(arg.columns) \o " FROM ")

\* the names the base table can qualify a column by: its alias or its name
BaseNames(table) ==
    IF TableMatch(table).found THEN {TableMatch(table).table, TableMatch(table).alias}
    ELSE {table}

\* the JOIN clause the claim gives for one key of a join specification (a
\* relation given as one column name joins with USING)
OnText(base, target, relation) ==
    "ON " \o Join([i \in 1..Len(relation.kids) |->
                     (IF Includes(relation.kids[i].k, ".")
                      THEN "\"" \o ReplaceFirst(relation.kids[i].k, ".", "\".\"") \o "\""
                      ELSE "\"" \o base \o "\".\"" \o relation.kids[i].k \o "\"")
                     \o " = \"" \o target \o "\".\"" \o relation.kids[i].v.s \o "\""],
                  " AND ")
JoinText(base, entry) ==
    With(JoinKeyMatch(entry.k), LAMBDA match :
         JoinWord(match.join) \o " JOIN \"" \o match.table \o "\" "
         \o (IF match.alias # "" THEN "AS \"" \o match.alias \o "\" " ELSE "")
         \o (IF entry.v.t = "object"
             THEN OnText(base, IF match.alias # "" THEN match.alias ELSE match.table, entry.v)
             ELSE "USING (\"" \o entry.v.s \o "\")"))

\* C18: each key of a join specification that carries a direction tag yields
\* exactly one JOIN clause, in the order of the specification, with the
\* keyword of its tag; the ON predicate of a mapping relation is the
\* conjunction of left = right equalities, a left key without a dot
\* qualified by the base table, a left key with a dot as given, the right
\* column qualified by the alias of the joined table or its name; also when
\* the base table has an alias.
C18_JoinClauses ==
    (op # "none" /\ arg.join # Null) =>
        /\ ret.called
        /\ Occurrences(Text(ret.segs), " JOIN ") = Len(arg.join.kids)
        /\ \E base \in BaseNames(arg.table) :
              Includes(Text(ret.segs),
                       " " \o Join([i \in 1..Len(arg.join.kids) |->
                                      JoinText(base, arg.join.kids[i])], " "))

----------------------------------------------------------------------------
(* buildRaw applied to bounded fragments and parameter maps *)

\* the pieces of a fragment
MaxPieces == 3

\* a fragment as pieces: text as it is, or a placeholder <name>
Lit(s) == [p |-> "text", s |-> s]
Ref(name) == [p |-> "ref", s |-> name]
PieceAlphabet ==
    {Lit("COUNT("), Lit(")"), Lit(" from  "), Lit("JOIN "), Lit("'"),
     Ref("id"), Ref("users.name"), Ref("users")}
Fragments == UNION {[1..n -> PieceAlphabet] : n \in 1..MaxPieces}

\* the text of the pieces from the i-th to the j-th
RECURSIVE PiecesText(_, _, _)
PiecesText(pieces, i, j) ==
    IF i > j THEN ""
    ELSE (IF pieces[i].p = "ref" THEN "<" \o pieces[i].s \o ">" ELSE pieces[i].s)
         \o PiecesText(pieces, i + 1, j)

\* the parameter maps of a fragment and of the statement it is spliced into
RawMaps == {<<>>, <<E(":v", Num("2")), E(":w", Num("3"))>>}
OuterMaps ==
    {<<E(":v", Num("2"))>>, <<E(":medoo_0_param", Num("5")), E(":v", Num("9"))>>}

InitRaw ==
    /\ prefix \in Prefixes
    /\ guid = 0
    /\ arg \in [pieces : Fragments, rawMap : RawMaps, map : OuterMaps]
    /\ op = "none" /\ ret = [ok |-> TRUE, s |-> "", map |-> <<>>]
    /\ Opened /\ logging = FALSE

\* buildRaw(new Raw(text, rawMap), map)
CallBuildRaw ==
    /\ op = "none"
    /\ op' = "buildRaw"
    /\ ret' = buildRaw(RawOf(PiecesText(arg.pieces, 1, Len(arg.pieces)), arg.rawMap), arg.map)
    /\ UNCHANGED <<prefix, guid, instance, arg>>

NextRaw == CallBuildRaw

SpecRaw == InitRaw /\ [][NextRaw]_vars

\* a name of the fragment's map is bound to another value in the outer map
Conflicts(rawMap, map) ==
    \E i \in 1..Len(rawMap) : HasKey(map, rawMap[i].k) /\ Prop(map, rawMap[i].k) # rawMap[i].v

\* C22: splicing a Raw fragment whose map holds a name the outer map binds
\* to another value fails and leaves the outer map as it was; a binding of
\* the outer map is never overwritten.
C22_NoOverwrite ==
    (op = "buildRaw") =>
        /\ Conflicts(arg.rawMap, arg.map) => ~ret.ok /\ ret.map = arg.map
        /\ \A i \in 1..Len(arg.map) : Prop(ret.map, arg.map[i].k) = arg.map[i].v

\* the quote marks in a text
Marks(s) == Cardinality({i \in 1..Len(s) : At(s, i) = "'"})

\* text with the white space at its end removed
RECURSIVE TrimEnd(_)
TrimEnd(s) ==
    IF Len(s) > 0 /\ At(s, Len(s)) \in SpaceChar THEN TrimEnd(Sub(s, 1, Len(s) - 1)) ELSE s

AfterKeyword(before) ==
    \E k \in RawKeywords : UpperText(Sub(TrimEnd(before), Len(TrimEnd(before)) - Len(k) + 1,
                                         Len(TrimEnd(before)))) = k

\* what the claim gives for the i-th piece: text as it is; a placeholder
\* between quote marks as it is; else its quoted identifier, table-quoted
\* after a keyword and column-quoted otherwise
PieceExpected(pieces, i, before, after) ==
    IF pieces[i].p = "text" THEN Ok(pieces[i].s)
    ELSE IF Marks(before) % 2 = 1 /\ Marks(after) > 0 THEN Ok("<" \o pieces[i].s \o ">")
    ELSE IF AfterKeyword(before) THEN tableQuote(pieces[i].s)
    ELSE columnQuote(pieces[i].s)

RECURSIVE FragmentExpected(_, _)
FragmentExpected(pieces, i) ==
    IF i > Len(pieces) THEN Ok("")
    ELSE ConcatOk(PieceExpected(pieces, i, PiecesText(pieces, 1, i - 1),
                                PiecesText(pieces, i + 1, Len(pieces))),
                  FragmentExpected(pieces, i + 1))

\* every quote mark of the fragment has its partner
MarksPaired(pieces) == Marks(PiecesText(pieces, 1, Len(pieces))) % 2 = 0

\* C24: splicing a Raw fragment rewrites every placeholder <table> or
\* <table.column> that is not between quote marks to exactly its quoted
\* identifier, table-quoted with the prefix after FROM, TABLE, INTO, UPDATE
\* or JOIN and column-quoted otherwise, and leaves every other character of
\* the fragment as it is.
C24_PlaceholdersQuoted ==
    (op = "buildRaw" /\ MarksPaired(arg.pieces) /\ FragmentExpected(arg.pieces, 1).ok) =>
        /\ ret.ok
        /\ ret.s = FragmentExpected(arg.pieces, 1).s

----------------------------------------------------------------------------
(* The condition compiler applied to range, pattern and malformed keys *)

\* the elements of a list value
MaxItems == 3

RangeSuffixes == {"[<>]", "[><]"}
MalformedSuffixes == {"[>>]", "[<>", "[]"}
LikeSuffixes == {"[~]", "[!~]"}

ItemLists == {Arr([i \in 1..n |-> <<Str("a"), Num("5"), Str("c")>>[i]]) : n \in 1..MaxItems}
RangeValues == ItemLists \cup {Num("7"), Str("x"), Null}
LikeValues ==
    ItemLists \cup {Str("a")}
        \cup {Obj(<<E(k, list)>>) : k \in {"AND", "OR"}, list \in ItemLists}

LeafEntries ==
    {E("age" \o suffix, v) : suffix \in RangeSuffixes \cup MalformedSuffixes, v \in RangeValues}
        \cup {E("name" \o suffix, v) : suffix \in LikeSuffixes, v \in LikeValues}

\* a leaf alone, or followed by a comparison
LeafTrees ==
    {Obj(<<e>>) : e \in LeafEntries} \cup {Obj(<<e, E("id", Num("1"))>>) : e \in LeafEntries}

InitLeaf ==
    /\ prefix = ""
    /\ arg \in [data : LeafTrees, guid : StartGuids]
    /\ guid = arg.guid
    /\ op = "none" /\ ret = Built(Ctx(0), <<>>)
    /\ Opened /\ logging = FALSE

NextLeaf == CallDataImplode \/ CallWhereClause

SpecLeaf == InitLeaf /\ [][NextLeaf]_vars

\* the first entry of the tree, its suffix and the name exec binds first
Leaf == arg.data.kids[1]
LeafSuffix == Sub(Leaf.k, BracketOf(Leaf.k), Len(Leaf.k))
LeafKey == mapKey(arg.guid)

\* C23: a range condition whose value is not a list of two elements, and a
\* key with a malformed operator bracket, make the compilation fail: neither
\* is dropped nor compiled as another condition. With a list of two elements
\* the fragment is ("col" BETWEEN :a AND :b), NOT BETWEEN for [><], the two
\* bounds bound in order.
C23_RangeOrFail ==
    (op \in {"dataImplode", "whereClause"}) =>
        /\ LeafSuffix \in MalformedSuffixes => ~ret.c.ok
        /\ LeafSuffix \in RangeSuffixes =>
              IF IsArray(Leaf.v) /\ Len(Leaf.v.kids) = 2
              THEN /\ ret.c.ok
                   /\ Includes(Text(ret.segs),
                               "(\"age\"" \o (IF LeafSuffix = "[><]" THEN " NOT" ELSE "")
                               \o " BETWEEN " \o LeafKey \o "a AND " \o LeafKey \o "b)")
                   /\ SubSeq(ret.c.map, 1, 2)
                        = <<E(LeafKey \o "a", Elem(Leaf.v, 0)), E(LeafKey \o "b", Elem(Leaf.v, 1))>>
              ELSE ~ret.c.ok

\* the list a pattern value gives and the keyword that joins its predicates
LikeListOf(value) ==
    IF IsArray(value) THEN value ELSE IF value.t = "object" THEN value.kids[1].v
    ELSE Arr(<<value>>)
LikeJoinOf(value) == IF value.t = "object" THEN " " \o value.kids[1].k \o " " ELSE " OR "

\* C25: for a key col[~] or col[!~] a list value compiles to one LIKE (NOT
\* LIKE) predicate for each element, each with one bound parameter, joined
\* by OR; a value { AND: list } or { OR: list } compiles to the predicates of
\* the listed elements joined by that keyword.
C25_LikeJoinedByKey ==
    (op \in {"dataImplode", "whereClause"} /\ LeafSuffix \in LikeSuffixes) =>
        /\ ret.c.ok
        /\ Includes(Text(ret.segs),
                    "(" \o Join([i \in 1..Len(LikeListOf(Leaf.v).kids) |->
                                   "\"name\"" \o (IF LeafSuffix = "[!~]" THEN " NOT" ELSE "")
                                   \o " LIKE " \o LeafKey \o "L" \o DecStr(i - 1)],
                                LikeJoinOf(Leaf.v)) \o ")")
        /\ Len(ret.c.map) >= Len(LikeListOf(Leaf.v).kids)
        /\ \A i \in 1..Len(LikeListOf(Leaf.v).kids) :
              ret.c.map[i].k = LeafKey \o "L" \o DecStr(i - 1)

----------------------------------------------------------------------------
(* Verbs issued on an instance whose connection is still being opened *)

\* a select by key and a select ordered by a custom list, whose literals
\* arrayQuote passes to connection.escape
IssuedCalls ==
    {Request("select", "users", Arr(<<Str("id")>>), Obj(<<E("id", Num("1"))>>), Null, "",
             NoOptions),
     Request("select", "users", Str("*"),
             Obj(<<E("ORDER", Obj(<<E("role", Arr(<<Str("a"), Str("b")>>))>>))>>), Null, "",
             NoOptions)}

NextIssue ==
    \/ \E r \in IssuedCalls : CallVerb(0, r)
    \/ \E a \in 1..Len(opens) : Connected(a)
    \/ \E a \in 1..Len(opens) : ModeSet(a)
    \/ \E a \in 1..Len(opens) : ConnectFailed(a)
    \/ \E i \in 1..Len(calls) : Resume(i)
    \/ \E i \in 1..Len(calls) : ConnectionLost(i)
    \/ \E i \in 1..Len(calls) : Executed(i)
    \/ \E i \in 1..Len(calls) : Rejected(i)

SpecIssue == Init /\ [][NextIssue]_vars

\* C26: compilations are independent: a verb issued while other verbs of the
\* instance are under way compiles to what it compiles to when it is issued
\* on its own, so it fails to compile only if it does on its own, and no
\* parameter name is bound by two compilations.
C26_CompilationsIndependent ==
    /\ \A p, q \in 1..Len(issued) : issued[p] = issued[q] => p = q
    /\ connection # 0 =>
          \A i \in 1..Len(calls) :
              calls[i].err = "compile" => ~CompileOf(calls[i].req, Ctx(guid)).c.ok

----------------------------------------------------------------------------
(* The chunk queries of parallelSelect for bounded totals and options *)

\* the counted total, the chunk size, the limit of parallel queries
MaxCount == 6
MaxChunk == 3
MaxParallel == 3

InitChunks ==
    /\ prefix = ""
    /\ guid = 0
    /\ arg \in [total : 0..MaxCount, chunkSize : 1..MaxChunk, maxParallel : 1..MaxParallel,
                where : {Obj(<<E("id[>]", Num("1"))>>),
                         Obj(<<E("id[>]", Num("1")), E("LIMIT", Num("2"))>>)}]
    /\ op = "none" /\ ret = <<>>
    /\ Opened /\ logging = FALSE

\* parallelSelect(table, columns, where, { chunkSize, maxParallel }) once
\* count has returned arg.total: the selects it issues
CallParallelSelect ==
    /\ op = "none"
    /\ op' = "parallelSelect"
    /\ ret' = SelectsOf(Request("parallelSelect", "users", Arr(<<Str("id")>>), arg.where, Null,
                                "", [chunkSize |-> arg.chunkSize,
                                     maxParallel |-> arg.maxParallel]),
                        arg.total)
    /\ UNCHANGED <<prefix, guid, instance, arg>>

NextChunks == CallParallelSelect

SpecChunks == InitChunks /\ [][NextChunks]_vars

\* the row indexes the n-th select of the result asks for: those of its
\* LIMIT [offset, count], or all of them when it has the caller's where
RangeOf(request) ==
    With(Prop(request.where.kids, "LIMIT"), LAMBDA limit :
         IF IsArray(limit)
         THEN {x \in 0..(MaxCount + MaxChunk) :
                  /\ x >= DecVal(Elem(limit, 0).s)
                  /\ x < DecVal(Elem(limit, 0).s) + DecVal(Elem(limit, 1).s)}
         ELSE 0..(MaxCount + MaxChunk))

\* C29: for every total, chunk size and limit of parallel queries, the
\* ranges [offset, offset + chunkSize) of the queries parallelSelect issues
\* cover every row index below the counted total, each exactly once, and the
\* queries are at most maxParallel.
C29_ChunksCoverAll ==
    (op = "parallelSelect") =>
        /\ \A x \in 0..(arg.total - 1) :
              Cardinality({n \in 1..Len(ret) : x \in RangeOf(ret[n])}) = 1
        /\ Len(ret) <= arg.maxParallel

----------------------------------------------------------------------------
(* select called twice with one column list object *)

\* the entries of a column list
MaxColumns == 2

ColumnNames ==
    {"id", "name(n)", "posts.title(post_title)", "age(a)[Int]", "users.email"}
AliasLists == {Arr(l) : l \in UNION {[1..n -> {Str(x) : x \in ColumnNames}] : n \in 1..MaxColumns}}

InitTwice ==
    /\ prefix = ""
    /\ guid = 0
    /\ arg \in [table : {"users"},
                join : {Null, Obj(<<E("[>]posts", Obj(<<E("id", Str("user_id"))>>))>>)},
                columns : AliasLists, where : {Obj(<<E("id", Num("1"))>>)}]
    /\ op = "none" /\ ret = [columns |-> arg.columns, first |-> "", second |-> ""]
    /\ Opened /\ logging = FALSE

\* the statement select compiles for the column list object as it is now,
\* and the object as the compilation leaves it
SelectWith(columns) ==
    IF arg.join = Null THEN selectContext(arg.table, Ctx(guid), columns, arg.where, Null, Null)
    ELSE selectContext(arg.table, Ctx(guid), arg.join, columns, arg.where, Null)

\* select(table, [join,] columns, where), the first call
CallSelectOnce ==
    /\ op = "none"
    /\ op' = "select"
    /\ \E q \in {SelectWith(ret.columns)} :
          /\ ret' = [columns |-> q.columns, first |-> Text(q.segs), second |-> ""]
          /\ guid' = q.c.guid
    /\ UNCHANGED <<prefix, instance, arg>>

\* select called again with the same list object
CallSelectAgain ==
    /\ op = "select"
    /\ op' = "again"
    /\ \E q \in {SelectWith(ret.columns)} :
          /\ ret' = [columns |-> q.columns, first |-> ret.first, second |-> Text(q.segs)]
          /\ guid' = q.c.guid
    /\ UNCHANGED <<prefix, instance, arg>>

NextTwice == CallSelectOnce \/ CallSelectAgain

SpecTwice == InitTwice /\ [][NextTwice]_vars

\* the SELECT list of a statement
ListOf(text) == Sub(text, 1, IndexOf(text, " FROM ") - 1)

\* C30: compiling the same column list object twice yields the same SELECT
\* list both times: a list with an entry col(alias) gives the projection
\* "col" AS "alias" in the second call as in the first, and the list object
\* is as the caller gave it.
C30_SameListTwice ==
    /\ op = "again" => ListOf(ret.second) = ListOf(ret.first)
    /\ op \in {"select", "again"} => ret.columns = arg.columns

====
